---- MODULE Spec2Model ----
(***************************************************************************)
(* A model of the Indian Portfolio Optimizer backend: the persisted users, *)
(* portfolios and holdings with the /auth and /portfolios endpoints, the   *)
(* backtesting service's shared transaction_cost field, and the market     *)
(* data service's quote cache.                                             *)
(*                                                                         *)
(* Weights are fixed-point numbers in thousandths (1.0 is 1000), so that   *)
(* sums and the 0.01 tolerance are exact.  An endpoint handler runs as one *)
(* atomic action (one database session that commits, or is closed without *)
(* a commit when the handler raises) and leaves its response in resp until *)
(* the response is delivered.                                              *)
(***************************************************************************)
EXTENDS Integers, Sequences, FiniteSets, TLC

VARIABLES
    users,          \* table users: sequence of rows, the id is the index
    portfolios,     \* table portfolios: sequence of rows, the id is the index
    holdings,       \* table portfolio_holdings: portfolio id -> its rows in id order
    resp,           \* the response being sent (NoResp when there is none)
    transaction_cost,   \* backtesting_service.transaction_cost, in thousandths
    bt,             \* worker thread -> its backtest-custom call
    cache,          \* data_service.cache: normalized symbol -> entry
    now,            \* datetime.now(), in minutes
    qt,             \* worker thread -> its current-quote lookup
    rng,            \* the process-wide generator of the random module
    ht,             \* worker thread -> its historical lookup
    calc            \* the last call of a service function: input and outcome

dbvars == <<users, portfolios, holdings>>
btvars == <<transaction_cost, bt>>
quotevars == <<cache, now, qt>>
histvars == <<rng, ht>>
restvars == <<rng, ht, calc>>
svcvars == <<transaction_cost, bt, cache, now, qt, rng, ht, calc>>
vars ==
    <<users, portfolios, holdings, resp, transaction_cost, bt, cache, now, qt,
      rng, ht, calc>>

----------------------------------------------------------------------------
(* Bounds of the model *)

MaxPortfolios == 1
MaxHoldings == 2

(* Program constants *)

ONE == 1000          \* the 1.0 the weight sums are compared with
TOLERANCE == 10      \* the 0.01 tolerance

Emails == {"e1", "e2"}
Usernames == {"u1", "u2"}
Passwords == {"p1", "p2"}
Symbols == {"A", "B"}
MapWeights == {0, 1000}

----------------------------------------------------------------------------
(* Helpers *)

Abs(x) == IF x < 0 THEN -x ELSE x

RECURSIVE SumWeights(_)
SumWeights(rows) ==
    IF rows = <<>> THEN 0 ELSE Head(rows).weight + SumWeights(Tail(rows))

Range(s) == {s[i] : i \in 1..Len(s)}

RECURSIVE SeqsUpTo(_, _)
SeqsUpTo(S, n) ==
    IF n = 0 THEN {<<>>}
    ELSE LET shorter == SeqsUpTo(S, n - 1)
         IN  shorter \cup {Append(s, x) : s \in shorter, x \in S}

NoToken == [present |-> FALSE, sub |-> "", signed |-> FALSE, expired |-> FALSE]
Jwt(sub, signed, expired) ==
    [present |-> TRUE, sub |-> sub, signed |-> signed, expired |-> expired]
NoCall == [op |-> "none"]
NoResp ==
    [call |-> NoCall, status |-> 0, stage |-> "none", body |-> NoToken,
     before |-> <<>>]

NoText == "None"     \* an optional text field that is not supplied / not set

(* A response: the call it answers, its HTTP status, the layer that        *)
(* produced it (the auth dependency or the endpoint body), for a login the *)
(* issued token, and for an update or a rebalance the holdings the         *)
(* portfolio had when the call arrived.                                    *)
Ready == resp = NoResp

Reply(call, status) ==
    resp' = [call |-> call, status |-> status, stage |-> "body",
             body |-> NoToken, before |-> <<>>]

ReplyAfter(call, status, before) ==
    resp' = [call |-> call, status |-> status, stage |-> "body",
             body |-> NoToken, before |-> before]

Respond(call, status) ==
    /\ Reply(call, status)
    /\ UNCHANGED dbvars

AuthFail(call, status) ==
    /\ resp' = [call |-> call, status |-> status, stage |-> "auth",
                body |-> NoToken, before |-> <<>>]
    /\ UNCHANGED dbvars

\* the response leaves the server
Deliver ==
    /\ resp # NoResp
    /\ resp' = NoResp
    /\ UNCHANGED <<dbvars, svcvars>>

----------------------------------------------------------------------------
(* app/auth/security.py (password hashing, token issuance and verification) *)

get_password_hash(password) == <<"hash", password>>

verify_password_AnyPassword(password, hashed) == TRUE

verify_password(password, hashed) == hashed = get_password_hash(password)

create_access_token(username) == Jwt(username, TRUE, FALSE)

\* decodes the token, validates signature and expiry, returns the subject
verify_token(token) ==
    IF token.signed /\ ~token.expired
    THEN [ok |-> TRUE, username |-> token.sub]
    ELSE [ok |-> FALSE, username |-> ""]

----------------------------------------------------------------------------
(* app/auth/dependencies.py *)

\* db.query(User).filter(User.username == username).first(): the id, or 0
UserByUsername(username) ==
    IF \E i \in 1..Len(users) : users[i].username = username
    THEN CHOOSE i \in 1..Len(users) :
            /\ users[i].username = username
            /\ \A j \in 1..(i - 1) : users[j].username # username
    ELSE 0

get_current_user_NoLookupCheck(token) ==
    IF ~token.present THEN [status |-> 401, user |-> 0]
    ELSE IF ~verify_token(token).ok THEN [status |-> 401, user |-> 0]
    ELSE LET u == UserByUsername(verify_token(token).username)
         IN  IF u = 0 \/ ~users[u].is_active THEN [status |-> 400, user |-> 0]
             ELSE [status |-> 200, user |-> u]

get_current_user(token) ==
    IF ~token.present THEN [status |-> 401, user |-> 0]     \* oauth2_scheme
    ELSE IF ~verify_token(token).ok THEN [status |-> 401, user |-> 0]
    ELSE LET u == UserByUsername(verify_token(token).username)
         IN  IF u = 0 THEN [status |-> 401, user |-> 0]
             ELSE IF ~users[u].is_active THEN [status |-> 400, user |-> 0]
             ELSE [status |-> 200, user |-> u]

get_current_active_user(token) ==
    LET current == get_current_user(token)
    IN  IF current.status # 200 THEN current
        ELSE IF ~users[current.user].is_active THEN [status |-> 400, user |-> 0]
        ELSE current

----------------------------------------------------------------------------
(* app/api/api_v1/endpoints/auth.py *)

UserExists_EmailOnly(email, username) ==
    \E i \in 1..Len(users) : users[i].email = email

\* the duplicate check of register_user
UserExists(email, username) ==
    \E i \in 1..Len(users) :
        users[i].email = email \/ users[i].username = username

register_user(user) ==
    /\ Ready
    /\ LET call == [op |-> "register_user", user |-> user]
       IN
       IF UserExists(user.email, user.username)
       THEN Respond(call, 400)
       ELSE /\ users' = Append(users,
                    [email |-> user.email,
                     username |-> user.username,
                     hashed_password |-> get_password_hash(user.password),
                     full_name |-> user.full_name,
                     is_active |-> TRUE,
                     risk_tolerance |-> user.risk_tolerance,
                     investment_horizon |-> user.investment_horizon])
            /\ UNCHANGED <<portfolios, holdings>>
            /\ Reply(call, 200)

login_for_access_token(username, password) ==
    /\ Ready
    /\ LET call == [op |-> "login", username |-> username, password |-> password]
           u == UserByUsername(username)
       IN  IF u = 0 \/ ~verify_password(password, users[u].hashed_password)
           THEN Respond(call, 401)
           ELSE IF ~users[u].is_active
           THEN Respond(call, 400)
           ELSE /\ resp' = [call |-> call, status |-> 200, stage |-> "body",
                            body |-> create_access_token(users[u].username),
                            before |-> <<>>]
                /\ UNCHANGED dbvars

read_users_me(token) ==
    /\ Ready
    /\ LET call == [op |-> "read_users_me", token |-> token]
           auth == get_current_active_user(token)
       IN  IF auth.status # 200 THEN AuthFail(call, auth.status)
           ELSE Respond(call, 200)

update_user_me(token, user_update) ==
    /\ Ready
    /\ LET call == [op |-> "update_user_me", token |-> token,
                    user_update |-> user_update]
           auth == get_current_active_user(token)
       IN  IF auth.status # 200 THEN AuthFail(call, auth.status)
           ELSE /\ users' = [users EXCEPT ![auth.user] =
                    [@ EXCEPT
                       !.full_name =
                           IF user_update.full_name # NoText
                           THEN user_update.full_name ELSE @,
                       !.risk_tolerance =
                           IF user_update.risk_tolerance # NoText
                           THEN user_update.risk_tolerance ELSE @,
                       !.investment_horizon =
                           IF user_update.investment_horizon # 0
                           THEN user_update.investment_horizon ELSE @]]
                /\ UNCHANGED <<portfolios, holdings>>
                /\ Reply(call, 200)

delete_user_me(token) ==
    /\ Ready
    /\ LET call == [op |-> "delete_user_me", token |-> token]
           auth == get_current_active_user(token)
       IN  IF auth.status # 200 THEN AuthFail(call, auth.status)
           ELSE /\ users' = [users EXCEPT ![auth.user].is_active = FALSE]
                /\ UNCHANGED <<portfolios, holdings>>
                /\ Reply(call, 200)

----------------------------------------------------------------------------
(* app/api/api_v1/endpoints/portfolios.py *)

FindPortfolio_AnyOwner(portfolio_id, user_id) ==
    IF /\ portfolio_id \in 1..Len(portfolios)
       /\ portfolios[portfolio_id].is_active
    THEN portfolio_id
    ELSE 0

\* db.query(Portfolio).filter(id == portfolio_id, user_id == current_user.id,
\* is_active == True).first(): the id, or 0 when there is no such row
FindPortfolio(portfolio_id, user_id) ==
    IF /\ portfolio_id \in 1..Len(portfolios)
       /\ portfolios[portfolio_id].user_id = user_id
       /\ portfolios[portfolio_id].is_active
    THEN portfolio_id
    ELSE 0

get_user_portfolios(token) ==
    /\ Ready
    /\ LET call == [op |-> "get_user_portfolios", token |-> token]
           auth == get_current_active_user(token)
       IN  IF auth.status # 200 THEN AuthFail(call, auth.status)
           ELSE Respond(call, 200)

create_weights_rejected_Tight(rows) ==
    rows # <<>> /\ Abs(SumWeights(rows) - ONE) > 0

\* the weight validation of create_portfolio
create_weights_rejected(rows) ==
    rows # <<>> /\ Abs(SumWeights(rows) - ONE) > TOLERANCE

create_portfolio(token, portfolio) ==
    /\ Ready
    /\ LET call == [op |-> "create_portfolio", token |-> token,
                    portfolio |-> portfolio]
           auth == get_current_active_user(token)
       IN  IF auth.status # 200 THEN AuthFail(call, auth.status)
           ELSE IF create_weights_rejected(portfolio.holdings)
           THEN Respond(call, 400)
           ELSE /\ portfolios' = Append(portfolios,
                        [name |-> portfolio.name,
                         description |-> portfolio.description,
                         user_id |-> auth.user,
                         is_active |-> TRUE])
                /\ holdings' = Append(holdings, portfolio.holdings)
                /\ UNCHANGED users
                /\ Reply(call, 200)

get_portfolio(token, portfolio_id) ==
    /\ Ready
    /\ LET call == [op |-> "get_portfolio", token |-> token,
                    portfolio_id |-> portfolio_id]
           auth == get_current_active_user(token)
       IN  IF auth.status # 200 THEN AuthFail(call, auth.status)
           ELSE IF FindPortfolio(portfolio_id, auth.user) = 0
           THEN Respond(call, 404)
           ELSE Respond(call, 200)

\* the weight validation of update_portfolio
update_weights_rejected(rows) ==
    Abs(SumWeights(rows) - ONE) > TOLERANCE

\* variant that adds the supplied rows without deleting the old ones
update_portfolio_KeepOldRows(token, portfolio_id, portfolio_update) ==
    /\ Ready
    /\ LET call == [op |-> "update_portfolio", token |-> token,
                    portfolio_id |-> portfolio_id,
                    portfolio_update |-> portfolio_update]
           auth == get_current_active_user(token)
           pid == FindPortfolio(portfolio_id, auth.user)
       IN  IF auth.status # 200 THEN AuthFail(call, auth.status)
           ELSE IF pid = 0 THEN Respond(call, 404)
           ELSE IF /\ portfolio_update.has_holdings
                   /\ update_weights_rejected(portfolio_update.holdings)
           THEN Respond(call, 400)
           ELSE /\ portfolios' = [portfolios EXCEPT ![pid] =
                       [@ EXCEPT
                          !.name = IF portfolio_update.name # NoText
                                   THEN portfolio_update.name ELSE @,
                          !.description =
                              IF portfolio_update.description # NoText
                              THEN portfolio_update.description ELSE @]]
                /\ holdings' =
                       IF portfolio_update.has_holdings
                       THEN [holdings EXCEPT ![pid] =
                                @ \o portfolio_update.holdings]
                       ELSE holdings
                /\ UNCHANGED users
                /\ ReplyAfter(call, 200, holdings[pid])

update_portfolio(token, portfolio_id, portfolio_update) ==
    /\ Ready
    /\ LET call == [op |-> "update_portfolio", token |-> token,
                    portfolio_id |-> portfolio_id,
                    portfolio_update |-> portfolio_update]
           auth == get_current_active_user(token)
           pid == FindPortfolio(portfolio_id, auth.user)
       IN  IF auth.status # 200 THEN AuthFail(call, auth.status)
           ELSE IF pid = 0 THEN Respond(call, 404)
           ELSE IF /\ portfolio_update.has_holdings
                   /\ update_weights_rejected(portfolio_update.holdings)
           THEN \* raised before the commit: the session keeps nothing
                Respond(call, 400)
           ELSE /\ portfolios' = [portfolios EXCEPT ![pid] =
                       [@ EXCEPT
                          !.name = IF portfolio_update.name # NoText
                                   THEN portfolio_update.name ELSE @,
                          !.description =
                              IF portfolio_update.description # NoText
                              THEN portfolio_update.description ELSE @]]
                /\ holdings' =
                       IF portfolio_update.has_holdings
                       THEN [holdings EXCEPT ![pid] = portfolio_update.holdings]
                       ELSE holdings
                /\ UNCHANGED users
                /\ ReplyAfter(call, 200, holdings[pid])

\* variant that deletes the row and its holdings instead of flagging it
delete_portfolio_HardDelete(token, portfolio_id) ==
    /\ Ready
    /\ LET call == [op |-> "delete_portfolio", token |-> token,
                    portfolio_id |-> portfolio_id]
           auth == get_current_active_user(token)
           pid == FindPortfolio(portfolio_id, auth.user)
           Without(tbl) == [i \in 1..(Len(tbl) - 1) |->
                              IF i < pid THEN tbl[i] ELSE tbl[i + 1]]
       IN  IF auth.status # 200 THEN AuthFail(call, auth.status)
           ELSE IF pid = 0 THEN Respond(call, 404)
           ELSE /\ portfolios' = Without(portfolios)
                /\ holdings' = Without(holdings)
                /\ UNCHANGED users
                /\ Reply(call, 200)

delete_portfolio(token, portfolio_id) ==
    /\ Ready
    /\ LET call == [op |-> "delete_portfolio", token |-> token,
                    portfolio_id |-> portfolio_id]
           auth == get_current_active_user(token)
           pid == FindPortfolio(portfolio_id, auth.user)
       IN  IF auth.status # 200 THEN AuthFail(call, auth.status)
           ELSE IF pid = 0 THEN Respond(call, 404)
           ELSE /\ portfolios' = [portfolios EXCEPT ![pid].is_active = FALSE]
                /\ UNCHANGED <<users, holdings>>
                /\ Reply(call, 200)

\* the analytics service answers or raises: 200 or 500
get_portfolio_performance(token, portfolio_id) ==
    /\ Ready
    /\ LET call == [op |-> "get_portfolio_performance", token |-> token,
                    portfolio_id |-> portfolio_id]
           auth == get_current_active_user(token)
           pid == FindPortfolio(portfolio_id, auth.user)
       IN  IF auth.status # 200
           THEN AuthFail(call, auth.status)
           ELSE IF pid = 0 THEN Respond(call, 404)
           ELSE IF holdings[pid] = <<>>
           THEN Respond(call, 400)
           ELSE \E status \in {200, 500} :
                    Respond(call, status)

\* the optimizer answers or raises: 200 or 500
optimize_existing_portfolio(token, portfolio_id) ==
    /\ Ready
    /\ LET call == [op |-> "optimize_existing_portfolio", token |-> token,
                    portfolio_id |-> portfolio_id]
           auth == get_current_active_user(token)
           pid == FindPortfolio(portfolio_id, auth.user)
       IN  IF auth.status # 200
           THEN AuthFail(call, auth.status)
           ELSE IF pid = 0 THEN Respond(call, 404)
           ELSE IF holdings[pid] = <<>>
           THEN Respond(call, 400)
           ELSE \E status \in {200, 500} :
                    Respond(call, status)

\* the correlation matrix is computed or the data service raises: 200 or 500
get_portfolio_suggestions(token, portfolio_id) ==
    /\ Ready
    /\ LET call == [op |-> "get_portfolio_suggestions", token |-> token,
                    portfolio_id |-> portfolio_id]
           auth == get_current_active_user(token)
           pid == FindPortfolio(portfolio_id, auth.user)
       IN  IF auth.status # 200
           THEN AuthFail(call, auth.status)
           ELSE IF pid = 0 THEN Respond(call, 404)
           ELSE IF holdings[pid] = <<>>
           THEN Respond(call, 200)
           ELSE \E status \in {200, 500} :
                    Respond(call, status)

(* rebalance_portfolio.  new_weights is a dict: here the sequence of its    *)
(* items in iteration order, each symbol at most once.                     *)

MapKeys(new_weights) == {new_weights[i].symbol : i \in 1..Len(new_weights)}

MapGet(new_weights, symbol) ==
    new_weights[CHOOSE i \in 1..Len(new_weights) :
                    new_weights[i].symbol = symbol].weight

\* the weight validation of rebalance_portfolio
rebalance_weights_rejected(new_weights) ==
    Abs(SumWeights(new_weights) - ONE) > TOLERANCE

\* current_holdings = {holding.symbol: holding for holding in portfolio.holdings}:
\* of several rows with one symbol the dict keeps the last
CurrentHolding(rows, symbol) ==
    CHOOSE i \in 1..Len(rows) :
        /\ rows[i].symbol = symbol
        /\ \A j \in (i + 1)..Len(rows) : rows[j].symbol # symbol

rebalance_rows_KeepZero(rows, new_weights) ==
    LET current == {rows[i].symbol : i \in 1..Len(rows)}
        updated == [i \in 1..Len(rows) |->
                      IF /\ rows[i].symbol \in MapKeys(new_weights)
                         /\ i = CurrentHolding(rows, rows[i].symbol)
                      THEN [rows[i] EXCEPT
                              !.weight = MapGet(new_weights, rows[i].symbol)]
                      ELSE rows[i]]
        kept == SelectSeq(updated, LAMBDA h : h.symbol \in MapKeys(new_weights))
        fresh == SelectSeq(new_weights, LAMBDA e : e.symbol \notin current)
    IN  kept \o fresh

\* the holdings of the portfolio after the update loop, the removal loop and
\* the commit: portfolio.holdings is the list loaded before the loops, so the
\* removal loop does not see the rows the update loop added
rebalance_rows(rows, new_weights) ==
    LET current == {rows[i].symbol : i \in 1..Len(rows)}
        updated == [i \in 1..Len(rows) |->
                      IF /\ rows[i].symbol \in MapKeys(new_weights)
                         /\ i = CurrentHolding(rows, rows[i].symbol)
                      THEN [rows[i] EXCEPT
                              !.weight = MapGet(new_weights, rows[i].symbol)]
                      ELSE rows[i]]
        kept == SelectSeq(updated,
                    LAMBDA h : /\ h.symbol \in MapKeys(new_weights)
                               /\ MapGet(new_weights, h.symbol) # 0)
        fresh == SelectSeq(new_weights, LAMBDA e : e.symbol \notin current)
    IN  kept \o fresh

rebalance_portfolio(token, portfolio_id, new_weights) ==
    /\ Ready
    /\ LET call == [op |-> "rebalance_portfolio", token |-> token,
                    portfolio_id |-> portfolio_id,
                    new_weights |-> new_weights]
           auth == get_current_active_user(token)
           pid == FindPortfolio(portfolio_id, auth.user)
       IN  IF auth.status # 200 THEN AuthFail(call, auth.status)
           ELSE IF pid = 0 THEN Respond(call, 404)
           ELSE IF rebalance_weights_rejected(new_weights)
           THEN Respond(call, 400)
           ELSE /\ holdings' = [holdings EXCEPT ![pid] =
                                   rebalance_rows(holdings[pid], new_weights)]
                /\ UNCHANGED <<users, portfolios>>
                /\ ReplyAfter(call, 200, holdings[pid])

----------------------------------------------------------------------------
(* The requests the clients send *)

ValidTokens == {Jwt(u, TRUE, FALSE) : u \in Usernames}
AllTokens ==
    {NoToken, Jwt("u1", FALSE, FALSE), Jwt("u1", TRUE, TRUE)} \cup ValidTokens
SomeTokens == {NoToken} \cup ValidTokens
PortfolioIds == 1..(MaxPortfolios + 1)

Row(symbol, weight) == [symbol |-> symbol, weight |-> weight]
HoldingRows == {Row("A", 500), Row("A", 504), Row("B", 500)}
\* the lists of at most MaxHoldings rows, without those far above 1.0 (all of
\* which the validations reject alike)
HoldingLists ==
    {l \in SeqsUpTo(HoldingRows, MaxHoldings) :
        SumWeights(l) <= ONE + 10 * TOLERANCE}
CreateLists == HoldingLists \cup {<<Row("A", 500), Row("B", 512)>>}
WeightMaps ==
    {m \in SeqsUpTo([symbol : Symbols, weight : MapWeights], MaxHoldings) :
        \A i, j \in 1..Len(m) : m[i].symbol = m[j].symbol => i = j}

Registration(email, username) ==
    [email |-> email, username |-> username, password |-> "p1",
     full_name |-> NoText, risk_tolerance |-> "moderate",
     investment_horizon |-> 60]

PortfolioCreates == [name : {"n1"}, description : {NoText}, holdings : CreateLists]

PortfolioUpdates ==
    [name : {NoText}, description : {NoText},
     has_holdings : {TRUE}, holdings : HoldingLists]
    \cup [name : {"n2"}, description : {NoText, "d1"},
          has_holdings : {TRUE}, holdings : {<<Row("A", 500)>>}]

----------------------------------------------------------------------------
(* app/services/backtesting.py and app/api/api_v1/endpoints/backtesting.py *)
(* The endpoint is a plain def: the server runs each call on a worker      *)
(* thread, so a call is a sequence of steps on the shared service object.  *)

DEFAULT_TRANSACTION_COST == 1     \* self.transaction_cost = 0.001
MIN_COMMON_DATES == 30

MaxWorkers == 2
Workers == 1..MaxWorkers

RECURSIVE SumSeq(_)
SumSeq(ws) == IF ws = <<>> THEN 0 ELSE Head(ws) + SumSeq(Tail(ws))

NoBacktest ==
    [token |-> NoToken, symbols |-> 0, weights |-> <<>>, days |-> 0,
     transaction_cost |-> 0]

(* A call: where it is, its parameters, the local original_cost, the value *)
(* the field had when the call arrived, and the status it ends with.       *)
IdleCall ==
    [pc |-> "idle", req |-> NoBacktest, original_cost |-> 0, entry_cost |-> 0,
     status |-> 0]

\* BacktestingService.backtest_portfolio: the ways it can end.  days is the
\* number of dates the portfolio and the benchmark data have in common.
backtest_portfolio(req) ==
    IF req.symbols # Len(req.weights) THEN {"ValueError"}
    ELSE IF Abs(SumSeq(req.weights) - ONE) > TOLERANCE THEN {"ValueError"}
    ELSE IF req.days < MIN_COMMON_DATES THEN {"ValueError"}
    ELSE {"result", "Exception"}

\* the auth dependency and the two checks made before the try block
backtest_custom_strategy(w, req) ==
    /\ bt[w].pc = "idle"
    /\ LET auth == get_current_active_user(req.token)
           Arrived(pc, status) ==
               bt' = [bt EXCEPT ![w] = [pc |-> pc, req |-> req,
                                        original_cost |-> 0,
                                        entry_cost |-> transaction_cost,
                                        status |-> status]]
       IN  IF auth.status # 200 THEN Arrived("done", auth.status)
           ELSE IF req.symbols # Len(req.weights) THEN Arrived("done", 400)
           ELSE IF Abs(SumSeq(req.weights) - ONE) > TOLERANCE
                THEN Arrived("done", 400)
           ELSE Arrived("read", 0)
    /\ UNCHANGED <<dbvars, resp, transaction_cost, quotevars, restvars>>

\* original_cost = backtesting_service.transaction_cost
bt_read_original(w) ==
    /\ bt[w].pc = "read"
    /\ bt' = [bt EXCEPT ![w].pc = "set", ![w].original_cost = transaction_cost]
    /\ UNCHANGED <<dbvars, resp, transaction_cost, quotevars, restvars>>

\* backtesting_service.transaction_cost = transaction_cost
bt_set_cost(w) ==
    /\ bt[w].pc = "set"
    /\ transaction_cost' = bt[w].req.transaction_cost
    /\ bt' = [bt EXCEPT ![w].pc = "run"]
    /\ UNCHANGED <<dbvars, resp, quotevars, restvars>>

\* the service call; a ValueError is answered 400 and any other exception
\* 500, both by the except clauses that follow the try block
bt_run(w) ==
    /\ bt[w].pc = "run"
    /\ \E outcome \in backtest_portfolio(bt[w].req) :
         bt' = [bt EXCEPT ![w].pc = IF outcome = "result" THEN "restore"
                                     ELSE "done",
                          ![w].status = CASE outcome = "result" -> 0
                                          [] outcome = "ValueError" -> 400
                                          [] OTHER -> 500]
    /\ UNCHANGED <<dbvars, resp, transaction_cost, quotevars, restvars>>

\* backtesting_service.transaction_cost = original_cost, then the return
bt_restore(w) ==
    /\ bt[w].pc = "restore"
    /\ transaction_cost' = bt[w].original_cost
    /\ bt' = [bt EXCEPT ![w].pc = "done", ![w].status = 200]
    /\ UNCHANGED <<dbvars, resp, quotevars, restvars>>

\* the response leaves the server and the worker is free again
bt_return(w) ==
    /\ bt[w].pc = "done"
    /\ bt' = [bt EXCEPT ![w] = IdleCall]
    /\ UNCHANGED <<dbvars, resp, transaction_cost, quotevars, restvars>>

----------------------------------------------------------------------------
(* app/services/data_service.py: MarketDataService, the current quote      *)
(* A symbol is the sequence of its parts, so that a suffix or a prefix is   *)
(* a part of it; the clock counts minutes.                                 *)

CACHE_DURATION_MINUTES == 15
DEFAULT_MARKET_SUFFIX == ".NS"

MaxNow == 20
TickMinutes == 5
Threads == {1, 2}

QuoteSymbols == {<<"X">>, <<"X", ".NS">>, <<"^", "N">>}

EndsWith(symbol, suffixes) ==
    symbol # <<>> /\ symbol[Len(symbol)] \in suffixes

StartsWith(symbol, prefix) == symbol # <<>> /\ symbol[1] = prefix

\* the first statement of get_stock_data
NormalizeSymbol(symbol) ==
    IF ~EndsWith(symbol, {".NS", ".BO"}) /\ ~StartsWith(symbol, "^")
    THEN Append(symbol, DEFAULT_MARKET_SUFFIX)
    ELSE symbol

CacheKeys == {NormalizeSymbol(s) : s \in QuoteSymbols}

\* a payload: the symbol it is about, the lookup that fetched it and when
NoData == [symbol |-> <<>>, by |-> 0, last_updated |-> 0]
NoEntry == [present |-> FALSE, data |-> NoData, timestamp |-> 0]

(* A lookup: where it is, the symbol it was called with and its normalized *)
(* form, the payload it built, the upstream calls it made, and the status  *)
(* and payload it ends with.                                               *)
IdleLookup ==
    [pc |-> "idle", arg |-> <<>>, symbol |-> <<>>, data |-> NoData,
     calls |-> 0, upstream |-> "none", status |-> 0, result |-> NoData]

\* variant that also takes an entry as old as the lifetime for valid
is_cache_valid_Inclusive(symbol) ==
    /\ cache[symbol].present
    /\ now - cache[symbol].timestamp <= CACHE_DURATION_MINUTES

is_cache_valid(symbol) ==
    /\ cache[symbol].present
    /\ now - cache[symbol].timestamp < CACHE_DURATION_MINUTES

\* variant that replaces the payload of an entry and keeps its timestamp
cache_store_KeepTimestamp(symbol, data) ==
    [cache EXCEPT ![symbol] =
        [present |-> TRUE, data |-> data,
         timestamp |-> IF cache[symbol].present THEN cache[symbol].timestamp
                       ELSE now]]

\* self.cache[symbol] = {"data": data, "timestamp": datetime.now()}
cache_store(symbol, data) ==
    [cache EXCEPT ![symbol] =
        [present |-> TRUE, data |-> data, timestamp |-> now]]

\* normalization and the validity check
get_stock_data(t, symbol) ==
    /\ qt[t].pc = "idle"
    /\ LET s == NormalizeSymbol(symbol)
       IN  qt' = [qt EXCEPT ![t] = [IdleLookup EXCEPT
                     !.pc = IF is_cache_valid(s) THEN "hit" ELSE "fetch",
                     !.arg = symbol, !.symbol = s]]
    /\ UNCHANGED <<dbvars, resp, btvars, restvars, cache, now>>

\* return self.cache[symbol]["data"]
quote_return_cached(t) ==
    /\ qt[t].pc = "hit"
    /\ qt' = [qt EXCEPT ![t].pc = "done", ![t].status = 200,
                        ![t].result = cache[qt[t].symbol].data]
    /\ UNCHANGED <<dbvars, resp, btvars, restvars, cache, now>>

\* ticker.info and ticker.history(period="2d"), then the payload is built.
\* Either call can raise; an empty history raises 404 inside the try block;
\* the except clause answers all three with 400.
quote_fetch(t) ==
    /\ qt[t].pc = "fetch"
    /\ \E upstream \in {"info raises", "history raises", "empty", "prices"} :
         qt' = [qt EXCEPT ![t] =
                 IF upstream = "prices"
                 THEN [@ EXCEPT !.pc = "store", !.calls = 2,
                                !.upstream = upstream,
                                !.data = [symbol |-> qt[t].symbol, by |-> t,
                                          last_updated |-> now]]
                 ELSE [@ EXCEPT !.pc = "done", !.status = 400,
                                !.upstream = upstream,
                                !.calls = IF upstream = "info raises" THEN 1
                                          ELSE 2]]
    /\ UNCHANGED <<dbvars, resp, btvars, restvars, cache, now>>

\* the cache entry is written in one assignment, then the payload returned
quote_store(t) ==
    /\ qt[t].pc = "store"
    /\ cache' = cache_store(qt[t].symbol, qt[t].data)
    /\ qt' = [qt EXCEPT ![t].pc = "done", ![t].status = 200,
                        ![t].result = qt[t].data]
    /\ UNCHANGED <<dbvars, resp, btvars, restvars, now>>

\* endpoints/data.py get_stock_data: an HTTPException of the service is
\* raised again with its status, any other exception is answered 500,
\* and a payload is answered 200
stock_endpoint_status(service_outcome) ==
    CASE service_outcome.kind = "HTTPException" -> service_outcome.status
      [] service_outcome.kind = "Exception" -> 500
      [] OTHER -> 200

\* what the service call of a finished lookup gave its caller
ServiceOutcome(t) ==
    IF qt[t].status = 200 THEN [kind |-> "payload", status |-> 200]
    ELSE [kind |-> "HTTPException", status |-> qt[t].status]

\* the caller has its answer and the thread is free again
quote_return(t) ==
    /\ qt[t].pc = "done"
    /\ qt' = [qt EXCEPT ![t] = IdleLookup]
    /\ UNCHANGED <<dbvars, resp, btvars, restvars, cache, now>>

\* time passes
Tick ==
    /\ now < MaxNow
    /\ now' = now + TickMinutes
    /\ UNCHANGED <<dbvars, resp, btvars, restvars, cache, qt>>

----------------------------------------------------------------------------
(* app/services/data_service.py: MarketDataService, the historical series  *)
(* The random module's generator is one object shared by every thread: its *)
(* state is the seed last set and the number of values drawn since (counted *)
(* up to MaxDraws).  A series of random values is determined by the state *)
(* the generator had when its first value was drawn and by its length.     *)

MaxDraws == 2
BootSeed == "os"     \* the seeding the interpreter does at start

Periods == {"5d", "1mo", "1y"}
LongPeriods == {"1y", "2y", "5y", "10y", "max"}

\* days_map.get(period, 252)
days_map(period) ==
    CASE period = "1d" -> 1
      [] period = "5d" -> 5
      [] period = "1mo" -> 30
      [] period = "3mo" -> 90
      [] period = "6mo" -> 180
      [] period = "1y" -> 252
      [] period = "2y" -> 504
      [] period = "5y" -> 1260
      [] period \in {"10y", "max"} -> 2520
      [] OTHER -> 252

\* hash(symbol) % 1000, the same for a symbol as long as the process lives
SymbolSeed(symbol) == <<"hash", symbol>>

Draw(n) == [rng EXCEPT !.pos = IF @ + n > MaxDraws THEN MaxDraws ELSE @ + n]

NoSeries ==
    [source |-> "none", symbol |-> <<>>, n_dates |-> 0, n_prices |-> 0,
     seed |-> BootSeed, start |-> 0]

(* A lookup: where it is, its normalized symbol and its period, the        *)
(* periods it has asked the upstream for, whether the frame it holds is    *)
(* empty, and the series it returns.                                       *)
IdleHistory ==
    [pc |-> "idle", symbol |-> <<>>, period |-> "none", requests |-> <<>>,
     hist |-> "none", result |-> NoSeries]

UpstreamOutcomes == {"raises", "empty", "rows"}
UpstreamRows == 3    \* the rows of a frame that is not empty

\* test_period = "5d" if period in [...] else period
test_period(period) == IF period \in LongPeriods THEN "5d" ELSE period

\* normalization and the random delay before the try block
get_historical_data(t, symbol, period) ==
    /\ ht[t].pc = "idle"
    /\ ht' = [ht EXCEPT ![t] = [IdleHistory EXCEPT
                 !.pc = "probe", !.symbol = NormalizeSymbol(symbol),
                 !.period = period]]
    /\ rng' = Draw(1)
    /\ UNCHANGED <<dbvars, resp, btvars, quotevars, calc>>

\* where the lookup goes after the first ticker.history call
after_probe(period, outcome) ==
    CASE outcome = "raises" -> "seed"
      [] outcome = "rows" /\ test_period(period) # period -> "full"
      [] outcome = "rows" -> "build"
      [] OTHER -> "month"

hist_probe(t) ==
    /\ ht[t].pc = "probe"
    /\ \E outcome \in UpstreamOutcomes :
         ht' = [ht EXCEPT ![t].pc = after_probe(ht[t].period, outcome),
                          ![t].hist = outcome,
                          ![t].requests = Append(@, test_period(ht[t].period))]
    /\ UNCHANGED <<dbvars, resp, btvars, quotevars, rng, calc>>

\* the requested period; an exception keeps the frame of the probe
hist_full(t) ==
    /\ ht[t].pc = "full"
    /\ \E outcome \in UpstreamOutcomes :
         ht' = [ht EXCEPT ![t].pc = IF outcome = "empty" THEN "month"
                                    ELSE "build",
                          ![t].hist = IF outcome = "raises" THEN @ ELSE outcome,
                          ![t].requests = Append(@, ht[t].period)]
    /\ UNCHANGED <<dbvars, resp, btvars, quotevars, rng, calc>>

\* variant in which the 404 for an empty frame reaches the caller
after_month_Raise404(outcome) ==
    CASE outcome = "rows" -> "build"
      [] outcome = "empty" -> "raised"
      [] OTHER -> "seed"

\* where the lookup goes after the 1-month call: an empty frame raises 404
\* inside the try block, which the except clause catches like any exception
after_month(outcome) == IF outcome = "rows" THEN "build" ELSE "seed"

hist_month(t) ==
    /\ ht[t].pc = "month"
    /\ \E outcome \in UpstreamOutcomes :
         ht' = [ht EXCEPT ![t].pc = after_month(outcome),
                          ![t].hist = outcome,
                          ![t].requests = Append(@, "1mo")]
    /\ UNCHANGED <<dbvars, resp, btvars, quotevars, rng, calc>>

\* the returns are computed and the result is built from the frame
hist_build(t) ==
    /\ ht[t].pc = "build"
    /\ \E built \in BOOLEAN :
         ht' = [ht EXCEPT ![t] =
                 IF built
                 THEN [@ EXCEPT !.pc = "done",
                                !.result = [source |-> "upstream",
                                            symbol |-> ht[t].symbol,
                                            n_dates |-> UpstreamRows,
                                            n_prices |-> UpstreamRows,
                                            seed |-> BootSeed, start |-> 0]]
                 ELSE [@ EXCEPT !.pc = "seed"]]
    /\ UNCHANGED <<dbvars, resp, btvars, quotevars, rng, calc>>

\* random.seed(hash(symbol) % 1000)
synth_seed(t) ==
    /\ ht[t].pc = "seed"
    /\ rng' = [seed |-> SymbolSeed(ht[t].symbol), pos |-> 0]
    /\ ht' = [ht EXCEPT ![t].pc = "generate"]
    /\ UNCHANGED <<dbvars, resp, btvars, quotevars, calc>>

\* the loop over the days (two gauss values a day), then three uniform
\* values a day for high, low and open
synth_generate(t) ==
    /\ ht[t].pc = "generate"
    /\ LET days == days_map(ht[t].period)
       IN  /\ ht' = [ht EXCEPT ![t].pc = "done",
                               ![t].result = [source |-> "synthetic",
                                              symbol |-> ht[t].symbol,
                                              n_dates |-> days,
                                              n_prices |-> days,
                                              seed |-> rng.seed,
                                              start |-> rng.pos]]
           /\ rng' = Draw(5 * days)
    /\ UNCHANGED <<dbvars, resp, btvars, quotevars, calc>>

\* the caller has its series and the thread is free again
hist_return(t) ==
    /\ ht[t].pc = "done"
    /\ ht' = [ht EXCEPT ![t] = IdleHistory]
    /\ UNCHANGED <<dbvars, resp, btvars, quotevars, rng, calc>>

NoCalc == [op |-> "none"]

----------------------------------------------------------------------------
(* Service functions and endpoints that keep no state of their own: a call *)
(* is one step that leaves its input and its outcome in calc.              *)

\* the statements of BacktestingService.backtest_portfolio that ran, for the
\* number of common dates req.days; fetch_fails is the fetch that raises
\* (0: none, i: the i-th symbol, req.symbols + 1: the benchmark)
backtest_portfolio_events_FetchFirst(req, fetch_fails) ==
    [i \in 1..req.symbols |-> "fetch symbol"] \o <<"fetch benchmark">>

backtest_portfolio_events(req, fetch_fails) ==
    IF backtest_portfolio([req EXCEPT !.days = MIN_COMMON_DATES])
           = {"ValueError"}
    THEN <<>>
    ELSE IF fetch_fails \in 1..req.symbols
    THEN [i \in 1..fetch_fails |-> "fetch symbol"]
    ELSE [i \in 1..req.symbols |-> "fetch symbol"] \o <<"fetch benchmark">> \o
         (IF fetch_fails = req.symbols + 1 THEN <<>>
          ELSE <<"align dates">> \o
               (IF req.days < MIN_COMMON_DATES THEN <<>> ELSE <<"simulate">>))

\* how the service call ends: a failed fetch is raised as ValueError
backtest_portfolio_outcome(req, fetch_fails, outcome) ==
    IF /\ backtest_portfolio([req EXCEPT !.days = MIN_COMMON_DATES])
              # {"ValueError"}
       /\ fetch_fails \in 1..(req.symbols + 1)
    THEN "ValueError"
    ELSE outcome

MAX_BACKTEST_SYMBOLS == 50

\* endpoints/backtesting.py backtest_portfolio (POST /backtest)
backtest_endpoint(req, fetch_fails, outcome) ==
    LET auth == get_current_active_user(req.token)
        Answer(stage, status, events) ==
            [stage |-> stage, status |-> status, events |-> events]
        ended == backtest_portfolio_outcome(req, fetch_fails, outcome)
    IN  IF auth.status # 200 THEN Answer("auth", auth.status, <<>>)
        ELSE IF req.symbols # Len(req.weights) THEN Answer("body", 400, <<>>)
        ELSE IF Abs(SumSeq(req.weights) - ONE) > TOLERANCE
             THEN Answer("body", 400, <<>>)
        ELSE IF req.symbols > MAX_BACKTEST_SYMBOLS
             THEN Answer("body", 400, <<>>)
        ELSE Answer("body",
                    CASE ended = "result" -> 200
                      [] ended = "ValueError" -> 400
                      [] OTHER -> 500,
                    backtest_portfolio_events(req, fetch_fails))

\* AnalyticsService._find_drawdown_periods and its copy in
\* BacktestingService: cum is the series of cumulative returns scaled to
\* integers; positions are 1-based here and 0-based in the records
MaxSeries == 5
SeriesValues == {94, 95, 98, 99, 100}

Maximum(S) == CHOOSE x \in S : \A y \in S : y <= x

RECURSIVE rolling_max(_, _)
\* np.maximum.accumulate(cumulative_returns)[i]
rolling_max(cum, i) ==
    IF i = 1 THEN cum[1]
    ELSE LET before == rolling_max(cum, i - 1)
         IN  IF cum[i] > before THEN cum[i] ELSE before

\* drawdown[i] < -0.05, for drawdown = (cum - rolling_max) / rolling_max
drawdown_opens(cum, i) ==
    100 * (cum[i] - rolling_max(cum, i)) < (0 - 5) * rolling_max(cum, i)

\* drawdown[i] >= -0.01
drawdown_closes_AtOpenThreshold(cum, i) ==
    100 * (cum[i] - rolling_max(cum, i)) >= (0 - 5) * rolling_max(cum, i)

drawdown_closes(cum, i) ==
    100 * (cum[i] - rolling_max(cum, i)) >= (0 - 1) * rolling_max(cum, i)

\* np.min(drawdown[start_idx:i+1]) as the pair <<cum - max, max>>
min_drawdown(cum, start_idx, i) ==
    LET worst == CHOOSE k \in start_idx..i : \A j \in start_idx..i :
                     (cum[k] - rolling_max(cum, k)) * rolling_max(cum, j)
                         <= (cum[j] - rolling_max(cum, j)) * rolling_max(cum, k)
    IN  <<cum[worst] - rolling_max(cum, worst), rolling_max(cum, worst)>>

RECURSIVE drawdown_scan(_, _, _, _, _)
drawdown_scan(cum, i, in_drawdown, start_idx, significant_drawdowns) ==
    IF i > Len(cum) THEN significant_drawdowns
    ELSE IF drawdown_opens(cum, i) /\ ~in_drawdown
    THEN drawdown_scan(cum, i + 1, TRUE, i, significant_drawdowns)
    ELSE IF drawdown_closes(cum, i) /\ in_drawdown
    THEN drawdown_scan(cum, i + 1, FALSE, start_idx,
             Append(significant_drawdowns,
                    [start_date |-> start_idx - 1,
                     end_date |-> i - 1,
                     max_drawdown |-> min_drawdown(cum, start_idx, i),
                     duration_days |-> (i - 1) - (start_idx - 1) + 1]))
    ELSE drawdown_scan(cum, i + 1, in_drawdown, start_idx,
                       significant_drawdowns)

find_drawdown_periods(cum) == drawdown_scan(cum, 1, FALSE, 1, <<>>)

\* PortfolioOptimizer.suggest_asset_allocation.  Percentages are exact
\* fractions: an allocation is [num, den] and the percentage of key k is
\* num[k] / den.
AllocationKeys ==
    {"equity_percent", "gold_percent", "silver_percent", "cash_percent"}

RiskTolerances == {"conservative", "moderate", "aggressive"}
Horizons == {12, 23, 24, 60, 120, 121}
\* Optional[int]: <<>> is None
Ages == {<<>>, <<0>>, <<25>>, <<80>>, <<81>>, <<101>>}

Min2(a, b) == IF a < b THEN a ELSE b
Max2(a, b) == IF a > b THEN a ELSE b

Allocation(equity, gold, silver, cash) ==
    [k \in AllocationKeys |->
        CASE k = "equity_percent" -> equity
          [] k = "gold_percent" -> gold
          [] k = "silver_percent" -> silver
          [] OTHER -> cash]

allocations(risk_tolerance) ==
    CASE risk_tolerance = "conservative" -> Allocation(40, 20, 5, 35)
      [] risk_tolerance = "aggressive" -> Allocation(85, 10, 3, 2)
      [] OTHER -> Allocation(65, 15, 5, 15)

horizon_adjusted(base_allocation, investment_horizon) ==
    IF investment_horizon > 120
    THEN [base_allocation EXCEPT
             !["equity_percent"] = Min2(@ + 10, 90),
             !["cash_percent"] = Max2(@ - 10, 5)]
    ELSE IF investment_horizon < 24
    THEN [base_allocation EXCEPT
             !["equity_percent"] = Max2(@ - 15, 20),
             !["cash_percent"] = Min2(@ + 15, 50)]
    ELSE base_allocation

\* (equity + max(100 - age, 20)) / 2, in halves of a percent; age 0 and no
\* age both skip the adjustment
age_adjusted(base_allocation, current_age) ==
    IF current_age = <<>> \/ current_age = <<0>>
    THEN [num |-> base_allocation, den |-> 1]
    ELSE [num |-> [k \in AllocationKeys |->
                      IF k = "equity_percent"
                      THEN base_allocation[k] + Max2(100 - current_age[1], 20)
                      ELSE 2 * base_allocation[k]],
          den |-> 2]

RECURSIVE SumOver(_, _)
SumOver(f, S) ==
    IF S = {} THEN 0
    ELSE LET k == CHOOSE x \in S : TRUE IN f[k] + SumOver(f, S \ {k})

\* total = sum(values); if total != 100: every value *= 100 / total
rescale_Never(a) == a

rescale(a) ==
    LET total == SumOver(a.num, AllocationKeys)
    IN  IF total # 100 * a.den
        THEN [num |-> [k \in AllocationKeys |-> 100 * a.num[k]], den |-> total]
        ELSE a

suggest_asset_allocation(risk_tolerance, investment_horizon, current_age) ==
    rescale(age_adjusted(
        horizon_adjusted(allocations(risk_tolerance), investment_horizon),
        current_age))

\* the keys of the dict AnalyticsService.analyze_portfolio_performance
\* returns
ANALYSIS_KEYS ==
    {"total_return", "annualized_return", "volatility", "sharpe_ratio",
     "sortino_ratio", "max_drawdown", "calmar_ratio", "var_95", "cvar_95",
     "beta", "alpha", "tracking_error", "information_ratio",
     "downside_deviation", "upside_deviation", "correlation",
     "benchmark_performance", "risk_metrics", "sector_allocation",
     "historical_performance", "drawdown_periods", "portfolio_returns",
     "benchmark_returns", "dates"}

\* the dict returned for a run that found n_periods drawdown periods; the
\* other values are named after their keys
analyze_portfolio_performance(n_periods) ==
    [k \in ANALYSIS_KEYS |->
        IF k = "drawdown_periods"
        THEN [i \in 1..n_periods |-> <<"period", i>>]
        ELSE <<"computed", k>>]

ServiceEnds == {"returns", "ValueError", "Exception"}

\* endpoints/analytics.py analyze_portfolio (POST /portfolio-analysis); a
\* subscript with a key the dict lacks raises KeyError, an Exception
analyze_portfolio(req, service_end, n_periods) ==
    LET auth == get_current_active_user(req.token)
        Answer(stage, status, body) ==
            [stage |-> stage, status |-> status, body |-> body]
        analysis_result == analyze_portfolio_performance(n_periods)
        subscripts == {"performance_metrics", "risk_metrics",
                       "drawdown_periods", "sector_allocation",
                       "portfolio_returns"}
    IN  IF auth.status # 200 THEN Answer("auth", auth.status, <<>>)
        ELSE IF req.symbols # Len(req.weights) THEN Answer("body", 400, <<>>)
        ELSE IF Abs(SumSeq(req.weights) - ONE) > TOLERANCE
             THEN Answer("body", 400, <<>>)
        ELSE IF service_end = "ValueError" THEN Answer("body", 400, <<>>)
        ELSE IF service_end = "Exception" THEN Answer("body", 500, <<>>)
        ELSE IF ~(subscripts \subseteq DOMAIN analysis_result)
             THEN Answer("body", 500, <<>>)
        ELSE Answer("body", 200,
                 [performance_metrics |->
                      analysis_result["performance_metrics"],
                  risk_metrics |-> analysis_result["risk_metrics"],
                  max_drawdown_periods |->
                      SubSeq(analysis_result["drawdown_periods"], 1,
                             Min2(5, Len(analysis_result["drawdown_periods"]))),
                  total_drawdown_periods |->
                      Len(analysis_result["drawdown_periods"]),
                  sector_allocation |-> analysis_result["sector_allocation"],
                  data_points |-> <<"len", analysis_result["portfolio_returns"]>>])

\* endpoints/backtesting.py compare_strategies.  A strategy is the dict of
\* the request: the keys it has, how its backtest ends and the Sharpe ratio
\* of its result.
MAX_STRATEGIES == 5

RECURSIVE sort_by_sharpe(_)
\* list.sort(key = sharpe_ratio, reverse = True): stable
sort_by_sharpe(results) ==
    IF results = <<>> THEN <<>>
    ELSE LET top == Maximum({results[i].sharpe_ratio : i \in DOMAIN results})
             IsTop(r) == r.sharpe_ratio = top
             IsRest(r) == r.sharpe_ratio # top
         IN  SelectSeq(results, IsTop) \o
             sort_by_sharpe(SelectSeq(results, IsRest))

RECURSIVE compare_loop(_, _, _)
\* the body of the try block: what it raises, or the results it collected
compare_loop(strategies, i, comparison_results) ==
    IF i > Len(strategies)
    THEN [raised |-> "none", status |-> 200,
          results |-> sort_by_sharpe(comparison_results)]
    ELSE IF ~({"symbols", "weights"} \subseteq strategies[i].keys)
    THEN [raised |-> "HTTPException", status |-> 400, results |-> <<>>]
    ELSE IF strategies[i].backtest # "result"
    THEN [raised |-> strategies[i].backtest, status |-> 0, results |-> <<>>]
    ELSE compare_loop(strategies, i + 1,
             Append(comparison_results,
                    [strategy |-> i,
                     sharpe_ratio |-> strategies[i].sharpe_ratio]))

\* except Exception: every exception of the try block, HTTPException
\* included, becomes a 500
compare_except(tried) ==
    IF tried.raised = "none" THEN [status |-> 200, results |-> tried.results]
    ELSE [status |-> 500, results |-> <<>>]

compare_strategies(token, strategies) ==
    LET auth == get_current_active_user(token)
    IN  IF auth.status # 200
        THEN [stage |-> "auth", status |-> auth.status, results |-> <<>>]
        ELSE IF Len(strategies) > MAX_STRATEGIES
        THEN [stage |-> "body", status |-> 400, results |-> <<>>]
        ELSE LET answer == compare_except(compare_loop(strategies, 1, <<>>))
             IN  [stage |-> "body", status |-> answer.status,
                  results |-> answer.results]

\* MarketDataService.get_market_indices and GET /data/indices.  lookup
\* says, for each index, how its get_stock_data call ends.
indices ==
    <<[name |-> "NIFTY_50", symbol |-> "^NSEI"],
      [name |-> "SENSEX", symbol |-> "^BSESN"],
      [name |-> "BANK_NIFTY", symbol |-> "^NSEBANK"],
      [name |-> "FINNIFTY", symbol |-> "^CNXFIN"],
      [name |-> "NIFTY_PHARMA", symbol |-> "^CNXPHARMA"]>>

LookupEnds == {"returns", "HTTPException", "Exception"}

ErrorMarker == [error |-> "Data not available"]

\* dict assignment d[key] = value
DictSet(d, key, value) ==
    [k \in DOMAIN d \cup {key} |-> IF k = key THEN value ELSE d[k]]

RECURSIVE indices_loop_Propagate(_, _, _)
indices_loop_Propagate(lookup, i, indices_data) ==
    IF i > Len(indices) THEN [raised |-> FALSE, indices_data |-> indices_data]
    ELSE IF lookup[indices[i].name] # "returns"
    THEN [raised |-> TRUE, indices_data |-> indices_data]
    ELSE indices_loop_Propagate(lookup, i + 1,
             DictSet(indices_data, indices[i].name,
                     [symbol |-> indices[i].symbol]))

RECURSIVE indices_loop(_, _, _)
\* for name, symbol in indices.items(): try ... except: error marker
indices_loop(lookup, i, indices_data) ==
    IF i > Len(indices) THEN [raised |-> FALSE, indices_data |-> indices_data]
    ELSE indices_loop(lookup, i + 1,
             DictSet(indices_data, indices[i].name,
                     IF lookup[indices[i].name] = "returns"
                     THEN [symbol |-> indices[i].symbol]
                     ELSE ErrorMarker))

get_market_indices(lookup) == indices_loop(lookup, 1, <<>>)

\* endpoints/data.py get_market_indices
indices_endpoint(lookup) ==
    LET called == get_market_indices(lookup)
    IN  IF called.raised THEN [status |-> 500, body |-> <<>>]
        ELSE [status |-> 200, body |-> [indices |-> called.indices_data]]

\* BacktestingService._run_backtest_simulation, one day of the loop per
\* step.  Weights are exact fractions [num, den] (weight j is num[j] / den);
\* a daily return is a number of halves, a cost a number of ten-thousandths.
RETURN_SCALE == 2
COST_SCALE == 10000

Frequencies == {"daily", "weekly", "monthly", "quarterly", "yearly"}

\* rebalance_days.get(rebalance_frequency, 21)
rebalance_days(rebalance_frequency) ==
    CASE rebalance_frequency = "daily" -> 1
      [] rebalance_frequency = "weekly" -> 5
      [] rebalance_frequency = "monthly" -> 21
      [] rebalance_frequency = "quarterly" -> 63
      [] OTHER -> 21

\* self.rebalance_costs.get(rebalance_frequency, 0.0005)
rebalance_costs(rebalance_frequency) ==
    CASE rebalance_frequency = "daily" -> 20
      [] rebalance_frequency = "weekly" -> 10
      [] rebalance_frequency = "monthly" -> 5
      [] rebalance_frequency = "quarterly" -> 3
      [] OTHER -> 5

RECURSIVE GCD(_, _)
GCD(a, b) == IF b = 0 THEN a ELSE GCD(b, a % b)

RECURSIVE GCDSeq(_)
GCDSeq(ns) == IF ns = <<>> THEN 0 ELSE GCD(Abs(Head(ns)), GCDSeq(Tail(ns)))

\* the same weights in lowest terms
Lowest(w) ==
    LET g == GCD(GCDSeq(w.num), w.den)
    IN  [num |-> [j \in DOMAIN w.num |-> w.num[j] \div g], den |-> w.den \div g]

\* i > 0 and i % rebalance_interval == 0
is_rebalance_day_FromDayZero(i, rebalance_interval) ==
    i % rebalance_interval = 0

is_rebalance_day(i, rebalance_interval) ==
    i > 0 /\ i % rebalance_interval = 0

\* the else branch: each weight *= 1 + return, then the division by
\* total_weight if total_weight > 0
drift_weights(current_weights, daily_returns) ==
    LET drifted == [j \in DOMAIN current_weights.num |->
                       current_weights.num[j] * (RETURN_SCALE + daily_returns[j])]
        total_weight == SumSeq(drifted)
    IN  IF total_weight > 0
        THEN Lowest([num |-> drifted, den |-> total_weight])
        ELSE Lowest([num |-> drifted,
                     den |-> current_weights.den * RETURN_SCALE])

target_copy(target_weights) == Lowest([num |-> target_weights, den |-> ONE])

\* the cost of a rebalance day: read from the table of the service (self),
\* never from its field transaction_cost, here self_cost in thousandths
day_cost_FromField(self_cost, rebalance_frequency) == self_cost * 10

day_cost(self_cost, rebalance_frequency) ==
    rebalance_costs(rebalance_frequency)

\* one pass of the loop body for day i; gross and portfolio_return are
\* fractions <<numerator, denominator>>
simulate_day(i, rebalance_frequency, target_weights, current_weights, daily_returns, self_cost) ==
    LET gross_num == SumSeq([j \in DOMAIN daily_returns |->
                                current_weights.num[j] * daily_returns[j]])
        gross_den == current_weights.den * RETURN_SCALE
        rebalance == is_rebalance_day(i, rebalance_days(rebalance_frequency))
        \* the local transaction_cost of line 186
        cost == day_cost(self_cost, rebalance_frequency)
    IN  [i |-> i,
         daily_returns |-> daily_returns,
         weights_before |-> current_weights,
         gross |-> <<gross_num, gross_den>>,
         portfolio_return |->
             IF rebalance
             THEN <<gross_num * COST_SCALE - cost * gross_den,
                    gross_den * COST_SCALE>>
             ELSE <<gross_num, gross_den>>,
         current_weights |->
             IF rebalance THEN target_copy(target_weights)
             ELSE drift_weights(current_weights, daily_returns)]

NoDay == [i |-> 0 - 1]
MaxDays == 64
WeightCap == 8

sim_start(rebalance_frequency, target_weights) ==
    /\ calc = NoCalc
    /\ calc' = [op |-> "simulation",
                rebalance_frequency |-> rebalance_frequency,
                target_weights |-> target_weights,
                i |-> 0,
                current_weights |-> target_copy(target_weights),
                day |-> NoDay]
    /\ UNCHANGED <<dbvars, resp, btvars, quotevars, histvars>>

\* for i, date in enumerate(dates): the returns found for the date
sim_day(daily_returns) ==
    /\ calc.op = "simulation"
    /\ calc.i < MaxDays
    /\ Len(daily_returns) = Len(calc.target_weights)
    /\ LET day == simulate_day(calc.i, calc.rebalance_frequency,
                               calc.target_weights, calc.current_weights,
                               daily_returns, transaction_cost)
       IN  /\ \A j \in DOMAIN day.current_weights.num :
                  Abs(day.current_weights.num[j]) <= WeightCap
           /\ day.current_weights.den <= WeightCap
           /\ calc' = [calc EXCEPT !.i = @ + 1,
                                   !.current_weights = day.current_weights,
                                   !.day = day]
    /\ UNCHANGED <<dbvars, resp, btvars, quotevars, histvars>>

\* the list of dates is exhausted and the two series are returned
sim_return ==
    /\ calc.op = "simulation"
    /\ calc' = NoCalc
    /\ UNCHANGED <<dbvars, resp, btvars, quotevars, histvars>>

RECURSIVE simulation_returns(_, _, _, _, _, _)
\* portfolio_returns of a simulation over the days i, i + 1, ... of
\* returns_by_day
simulation_returns(i, rebalance_frequency, target_weights, current_weights, returns_by_day, self_cost) ==
    IF i >= Len(returns_by_day) THEN <<>>
    ELSE LET day == simulate_day(i, rebalance_frequency, target_weights,
                                 current_weights, returns_by_day[i + 1],
                                 self_cost)
         IN  <<day.portfolio_return>> \o
             simulation_returns(i + 1, rebalance_frequency, target_weights,
                                day.current_weights, returns_by_day, self_cost)

\* a backtest-custom call that overlaps no other: the endpoint sets the
\* field to its parameter and the service simulates
custom_portfolio_returns(rebalance_frequency, target_weights, returns_by_day, transaction_cost_param) ==
    simulation_returns(0, rebalance_frequency, target_weights,
                       target_copy(target_weights), returns_by_day,
                       transaction_cost_param)

\* The dates of MarketDataService._generate_synthetic_data.  A date is its
\* day number; day 0 is a Monday, so date.weekday() is the day number
\* modulo 7, and the "%Y-%m-%d" strings are ordered as the day numbers are.
weekday(date) == date % 7

RECURSIVE skip_weekend(_)
\* while date.weekday() >= 5: date += timedelta(days=1)
skip_weekend(date) ==
    IF weekday(date) >= 5 THEN skip_weekend(date + 1) ELSE date

\* for i in range(days): date = end_date - timedelta(days=days-i-1), then
\* the weekend skip; position i + 1 of the result is iteration i
synthetic_dates(end_date, period) ==
    LET days == days_map(period)
    IN  [k \in 1..days |-> skip_weekend(end_date - (days - (k - 1) - 1))]

\* endpoints/backtesting.py walk_forward_analysis, one pass of its while
\* loop per step.  Dates are day numbers from DATE_MIN (datetime.min) to
\* MaxDate (datetime.max); adding a timedelta that leaves the range raises
\* OverflowError.  periods is the length of the list, counted up to
\* MaxWindows.
DATE_MIN == 1
MaxDate == 200
TEST_DAYS == 63
MaxWindows == 8

in_datetime_range(date) == DATE_MIN <= date /\ date <= MaxDate

walk_forward_analysis(token, symbols, weights, start_dt, end_dt, optimization_window) ==
    /\ calc = NoCalc
    /\ LET auth == get_current_active_user(token)
           Arrived(pc, status) ==
               calc' = [op |-> "walk_forward", pc |-> pc, status |-> status,
                        current_date |-> start_dt, end_dt |-> end_dt,
                        optimization_window |-> optimization_window,
                        periods |-> 0]
       IN  IF auth.status # 200 THEN Arrived("done", auth.status)
           ELSE IF symbols # weights THEN Arrived("done", 400)
           ELSE Arrived("loop", 0)
    /\ UNCHANGED <<dbvars, resp, btvars, quotevars, histvars>>

\* optimization_end = current_date + timedelta(days=optimization_window)
next_window_start(current_date, optimization_window) ==
    current_date + optimization_window

\* while current_date < end_dt: one pass
walk_iterate ==
    /\ calc.op = "walk_forward"
    /\ calc.pc = "loop"
    /\ calc.current_date < calc.end_dt
    /\ LET optimization_end ==
               next_window_start(calc.current_date, calc.optimization_window)
           test_start == optimization_end
           test_end == Min2(optimization_end + TEST_DAYS, calc.end_dt)
       IN  IF ~in_datetime_range(optimization_end)
              \/ ~in_datetime_range(optimization_end + TEST_DAYS)
           THEN \* OverflowError, caught by except Exception
                calc' = [calc EXCEPT !.pc = "done", !.status = 500]
           ELSE calc' = [calc EXCEPT
                            !.periods = IF test_end > test_start
                                        THEN Min2(@ + 1, MaxWindows) ELSE @,
                            !.current_date = test_start]
    /\ UNCHANGED <<dbvars, resp, btvars, quotevars, histvars>>

\* the loop condition is false: the list of windows is complete
walk_leave ==
    /\ calc.op = "walk_forward"
    /\ calc.pc = "loop"
    /\ ~(calc.current_date < calc.end_dt)
    /\ calc' = [calc EXCEPT !.pc = "generated"]
    /\ UNCHANGED <<dbvars, resp, btvars, quotevars, histvars>>

\* the backtests of the windows: results of them return, the others are
\* skipped; with none left the 400 raised inside the try is answered 500
walk_backtests(results, statistics_raise) ==
    /\ calc.op = "walk_forward"
    /\ calc.pc = "generated"
    /\ results \in 0..calc.periods
    /\ calc' = [calc EXCEPT
                   !.pc = "done",
                   !.status = IF results = 0 \/ statistics_raise THEN 500
                              ELSE 200]
    /\ UNCHANGED <<dbvars, resp, btvars, quotevars, histvars>>

walk_return ==
    /\ calc.op = "walk_forward"
    /\ calc.pc = "done"
    /\ calc' = NoCalc
    /\ UNCHANGED <<dbvars, resp, btvars, quotevars, histvars>>

\* AnalyticsService.analyze_portfolio_performance, the series it analyses.
\* A series the data service returned is [first, len]: len days, dated
\* first, first + 1, ... in ascending order, with one return per date; dates
\* are day numbers.
MAX_POINTS == 252
FALLBACK_SPAN == 365

\* series['dates'][i], and the date series['returns'][i] belongs to
date_at(series, i) == series.first + i

single_point(today) == [first |-> today, len |-> 1]

\* portfolio_data after the fetch loop: fetched maps the symbols whose fetch
\* returned to their series; if there is none, every symbol gets one point
\* dated today
portfolio_data(symbols, fetched, today) ==
    IF DOMAIN fetched = {} THEN [s \in symbols |-> single_point(today)]
    ELSE fetched

\* benchmark_data: the fetched series, or one point dated today
benchmark_data(raises, fetched, today) ==
    IF raises THEN single_point(today) ELSE fetched

max_points(data, benchmark) ==
    LET lengths == {data[s].len : s \in DOMAIN data}
        shortest == CHOOSE x \in lengths : \A y \in lengths : x <= y
        min_data_points == IF shortest = 0 THEN 1 ELSE shortest
    IN  Min2(Min2(min_data_points, benchmark.len), MAX_POINTS)

RECURSIVE fallback_dates(_, _)
\* the dates of the synthetic series: n weekdays from current_date on
fallback_dates(current_date, n) ==
    IF n = 0 THEN <<>>
    ELSE <<skip_weekend(current_date)>> \o
         fallback_dates(skip_weekend(current_date) + 1, n - 1)

\* valid_dates, and the dates of the returns that went into
\* portfolio_returns and benchmark_returns; start_date and end_date are
\* parsed and, but for the synthetic series, not used
performance_series(symbols, fetched, benchmark_raises, benchmark_fetched, start_date, end_date, today) ==
    LET data == portfolio_data(symbols, fetched, today)
        benchmark == benchmark_data(benchmark_raises, benchmark_fetched, today)
        n == max_points(data, benchmark)
    IN  IF n = 0
        THEN [synthetic |-> TRUE,
              dates |-> fallback_dates(end_date - FALLBACK_SPAN, MAX_POINTS),
              return_dates |-> {}]
        ELSE [synthetic |-> FALSE,
              dates |-> [k \in 1..n |-> date_at(benchmark, k - 1)],
              return_dates |->
                  {date_at(data[s], i) : s \in DOMAIN data, i \in 0..(n - 1)}
                  \cup {date_at(benchmark, i) : i \in 0..(n - 1)}]

\* MarketDataService.search_symbols.  A symbol, and a query, is the sequence
\* of its characters.
NS == <<".", "N", "S">>

\* str.upper(), on the letters that occur
upper(s) ==
    [i \in DOMAIN s |->
        CASE s[i] = "a" -> "A"
          [] s[i] = "b" -> "B"
          [] s[i] = "n" -> "N"
          [] s[i] = "s" -> "S"
          [] OTHER -> s[i]]

\* str.isalpha()
isalpha(s) ==
    /\ s # <<>>
    /\ \A i \in DOMAIN s : s[i] \in {"a", "b", "n", "s", "A", "B", "N", "S"}

\* str.endswith(suffix)
endswith(s, suffix) ==
    /\ Len(s) >= Len(suffix)
    /\ SubSeq(s, Len(s) - Len(suffix) + 1, Len(s)) = suffix

\* part in s
contains(s, part) ==
    \E i \in 0..(Len(s) - Len(part)) : SubSeq(s, i + 1, i + Len(part)) = part

\* symbol.upper() == query_upper or symbol.upper() == f"{query_upper}.NS"
is_exact_match(symbol, query) ==
    \/ upper(symbol) = upper(query)
    \/ upper(symbol) = upper(query) \o NS

RECURSIVE partial_matches(_, _, _, _, _)
\* the second loop: a symbol that holds the query and is not yet in results
\* is appended, and only after an append is the length compared with limit
partial_matches(all_symbols, i, query, limit, results) ==
    IF i > Len(all_symbols) THEN results
    ELSE IF contains(upper(all_symbols[i]), upper(query))
            /\ all_symbols[i] \notin Range(results)
    THEN IF Len(results) + 1 >= limit
         THEN Append(results, all_symbols[i])
         ELSE partial_matches(all_symbols, i + 1, query, limit,
                  Append(results, all_symbols[i]))
    ELSE partial_matches(all_symbols, i + 1, query, limit, results)

search_symbols(all_symbols, query, limit) ==
    LET IsExact(symbol) == is_exact_match(symbol, query)
        exact == SelectSeq(all_symbols, IsExact)
        matched == partial_matches(all_symbols, 1, query, limit, exact)
        IsSuffixed(symbol) == upper(symbol) = upper(query \o NS)
        suffixed == SelectSeq(all_symbols, IsSuffixed)
        retried ==
            IF matched = <<>> /\ ~endswith(query, NS) /\ suffixed # <<>>
            THEN <<suffixed[1]>> ELSE matched
    IN  IF retried = <<>> /\ Len(query) >= 3 /\ isalpha(query)
        THEN <<upper(query) \o NS>>
        ELSE retried

----------------------------------------------------------------------------
Init ==
    /\ users = <<>>
    /\ portfolios = <<>>
    /\ holdings = <<>>
    /\ resp = NoResp
    /\ transaction_cost = DEFAULT_TRANSACTION_COST
    /\ bt = [w \in Workers |-> IdleCall]
    /\ cache = [s \in CacheKeys |-> NoEntry]
    /\ now = 0
    /\ qt = [t \in Threads |-> IdleLookup]
    /\ rng = [seed |-> BootSeed, pos |-> 0]
    /\ ht = [t \in Threads |-> IdleHistory]
    /\ calc = NoCalc

Register ==
    /\ UNCHANGED svcvars
    /\ \E r \in {Registration("e1", "u1"), Registration("e2", "u2")} :
           register_user(r)

CreatePortfolio ==
    /\ UNCHANGED svcvars
    /\ Len(portfolios) < MaxPortfolios
    /\ \E t \in ValidTokens, p \in PortfolioCreates : create_portfolio(t, p)

UpdatePortfolio ==
    /\ UNCHANGED svcvars
    /\ \E t \in ValidTokens, id \in PortfolioIds, u \in PortfolioUpdates :
           update_portfolio(t, id, u)

RebalancePortfolio ==
    /\ UNCHANGED svcvars
    /\ \E t \in ValidTokens, id \in PortfolioIds, m \in WeightMaps :
           rebalance_portfolio(t, id, m)

(* Registration and the endpoints that write holdings, with many bodies *)
Next ==
    \/ Register
    \/ CreatePortfolio
    \/ UpdatePortfolio
    \/ RebalancePortfolio
    \/ Deliver

Spec == Init /\ [][Next]_vars

----------------------------------------------------------------------------
(* The account endpoints with every kind of token, and the portfolio        *)
(* endpoints with a few bodies.                                            *)

UserUpdates ==
    {[full_name |-> "F", risk_tolerance |-> NoText, investment_horizon |-> 12]}

FewCreates ==
    [name : {"n1"}, description : {NoText},
     holdings : {<<Row("A", 500), Row("B", 500)>>}]

FewUpdates ==
    {[name |-> "n2", description |-> NoText, has_holdings |-> FALSE,
      holdings |-> <<>>]}

FewMaps == {<<Row("A", 1000)>>}

AuthRegister ==
    /\ UNCHANGED svcvars
    /\ \E e \in Emails, u \in Usernames : register_user(Registration(e, u))

AuthLogin ==
    /\ UNCHANGED svcvars
    /\ \E u \in Usernames, p \in Passwords : login_for_access_token(u, p)

AuthReadMe ==
    /\ UNCHANGED svcvars
    /\ \E t \in AllTokens : read_users_me(t)

AuthUpdateMe ==
    /\ UNCHANGED svcvars
    /\ \E t \in SomeTokens, u \in UserUpdates : update_user_me(t, u)

AuthDeleteMe ==
    /\ UNCHANGED svcvars
    /\ \E t \in AllTokens : delete_user_me(t)

AuthListPortfolios ==
    /\ UNCHANGED svcvars
    /\ \E t \in AllTokens : get_user_portfolios(t)

AuthCreatePortfolio ==
    /\ UNCHANGED svcvars
    /\ Len(portfolios) < MaxPortfolios
    /\ \E t \in SomeTokens, p \in FewCreates : create_portfolio(t, p)

AuthGetPortfolio ==
    /\ UNCHANGED svcvars
    /\ \E t \in SomeTokens, id \in PortfolioIds : get_portfolio(t, id)

AuthUpdatePortfolio ==
    /\ UNCHANGED svcvars
    /\ \E t \in SomeTokens, id \in PortfolioIds, u \in FewUpdates :
           update_portfolio(t, id, u)

AuthDeletePortfolio ==
    /\ UNCHANGED svcvars
    /\ \E t \in SomeTokens, id \in PortfolioIds : delete_portfolio(t, id)

AuthPortfolioPerformance ==
    /\ UNCHANGED svcvars
    /\ \E t \in SomeTokens, id \in PortfolioIds : get_portfolio_performance(t, id)

AuthOptimizePortfolio ==
    /\ UNCHANGED svcvars
    /\ \E t \in SomeTokens, id \in PortfolioIds : optimize_existing_portfolio(t, id)

AuthRebalancePortfolio ==
    /\ UNCHANGED svcvars
    /\ \E t \in SomeTokens, id \in PortfolioIds, m \in FewMaps :
           rebalance_portfolio(t, id, m)

AuthPortfolioSuggestions ==
    /\ UNCHANGED svcvars
    /\ \E t \in SomeTokens, id \in PortfolioIds : get_portfolio_suggestions(t, id)

NextAuth ==
    \/ AuthRegister
    \/ AuthLogin
    \/ AuthReadMe
    \/ AuthUpdateMe
    \/ AuthDeleteMe
    \/ AuthListPortfolios
    \/ AuthCreatePortfolio
    \/ AuthGetPortfolio
    \/ AuthUpdatePortfolio
    \/ AuthDeletePortfolio
    \/ AuthPortfolioPerformance
    \/ AuthOptimizePortfolio
    \/ AuthRebalancePortfolio
    \/ AuthPortfolioSuggestions
    \/ Deliver

SpecAuth == Init /\ [][NextAuth]_vars

----------------------------------------------------------------------------
(* Backtest-custom calls that do not overlap: a call arrives only when no  *)
(* other call is in progress.                                              *)

BacktestRequests ==
    [token : SomeTokens, symbols : {1, 2},
     weights : {<<1000>>, <<500, 500>>, <<500, 400>>},
     days : {10, 40}, transaction_cost : {1, 5}]

BtCallAlone ==
    /\ \A v \in Workers : bt[v].pc = "idle"
    /\ \E w \in Workers, r \in BacktestRequests : backtest_custom_strategy(w, r)

BtReadOriginal == \E w \in Workers : bt_read_original(w)
BtSetCost == \E w \in Workers : bt_set_cost(w)
BtRun == \E w \in Workers : bt_run(w)
BtRestore == \E w \in Workers : bt_restore(w)
BtReturn == \E w \in Workers : bt_return(w)

NextBacktestSeq ==
    \/ Register
    \/ Deliver
    \/ BtCallAlone
    \/ BtReadOriginal
    \/ BtSetCost
    \/ BtRun
    \/ BtRestore
    \/ BtReturn

SpecBacktestSeq == Init /\ [][NextBacktestSeq]_vars

----------------------------------------------------------------------------
(* Concurrent current-quote lookups *)

QuoteLookup == \E t \in Threads, s \in QuoteSymbols : get_stock_data(t, s)
QuoteReturnCached == \E t \in Threads : quote_return_cached(t)
QuoteFetch == \E t \in Threads : quote_fetch(t)
QuoteStore == \E t \in Threads : quote_store(t)
QuoteReturn == \E t \in Threads : quote_return(t)

NextQuote ==
    \/ QuoteLookup
    \/ QuoteReturnCached
    \/ QuoteFetch
    \/ QuoteStore
    \/ QuoteReturn
    \/ Tick

SpecQuote == Init /\ [][NextQuote]_vars

----------------------------------------------------------------------------
(* Concurrent historical lookups *)

HistSymbols == {<<"X">>, <<"^", "N">>}

HistLookup ==
    \E t \in Threads, s \in HistSymbols, p \in Periods :
        get_historical_data(t, s, p)
HistProbe == \E t \in Threads : hist_probe(t)
HistFull == \E t \in Threads : hist_full(t)
HistMonth == \E t \in Threads : hist_month(t)
HistBuild == \E t \in Threads : hist_build(t)
SynthSeed == \E t \in Threads : synth_seed(t)
SynthGenerate == \E t \in Threads : synth_generate(t)
HistReturn == \E t \in Threads : hist_return(t)

NextHist ==
    \/ HistLookup
    \/ HistProbe
    \/ HistFull
    \/ HistMonth
    \/ HistBuild
    \/ SynthSeed
    \/ SynthGenerate
    \/ HistReturn

SpecHist == Init /\ [][NextHist]_vars

----------------------------------------------------------------------------
(* Calls of the stateless service functions and endpoints *)

RECURSIVE Repeat(_, _)
Repeat(x, n) == IF n = 0 THEN <<>> ELSE <<x>> \o Repeat(x, n - 1)

CalcBacktestRequests ==
    [token : SomeTokens, symbols : {1, 2},
     weights : {<<1000>>, <<500, 500>>, <<500, 400>>},
     days : {29, 30}, transaction_cost : {1}]
    \cup {[token |-> t, symbols |-> 51,
           weights |-> Repeat(20, 49) \o <<10, 10>>, days |-> 30,
           transaction_cost |-> 1] : t \in ValidTokens}

\* one call at a time: it is made when none is in progress, and returns
Calc(record) ==
    /\ calc = NoCalc
    /\ calc' = record
    /\ UNCHANGED <<dbvars, resp, btvars, quotevars, histvars>>

CalcReturn ==
    /\ calc # NoCalc
    /\ calc' = NoCalc
    /\ UNCHANGED <<dbvars, resp, btvars, quotevars, histvars>>

\* POST /backtest
CalcBacktestEndpoint ==
    \E req \in CalcBacktestRequests, fetch_fails \in 0..3 :
        \E outcome \in backtest_portfolio(req) :
            Calc([op |-> "backtest_endpoint", req |-> req,
                  fetch_fails |-> fetch_fails,
                  out |-> backtest_endpoint(req, fetch_fails, outcome)])

\* backtesting_service.backtest_portfolio called directly
CalcBacktestService ==
    \E req \in CalcBacktestRequests, fetch_fails \in 0..3 :
        \E outcome \in backtest_portfolio(req) :
            Calc([op |-> "backtest_portfolio", req |-> req,
                  fetch_fails |-> fetch_fails,
                  out |-> [stage |-> "body",
                           status |->
                               IF backtest_portfolio_outcome(
                                      req, fetch_fails, outcome) = "ValueError"
                               THEN 400 ELSE 200,
                           events |->
                               backtest_portfolio_events(req, fetch_fails)]])

\* _find_drawdown_periods on a series of cumulative returns
CalcDrawdownPeriods ==
    \E cum \in SeqsUpTo(SeriesValues, MaxSeries) :
        /\ cum # <<>>
        /\ Calc([op |-> "find_drawdown_periods", cum |-> cum,
                 out |-> find_drawdown_periods(cum)])

\* portfolio_optimizer.suggest_asset_allocation
CalcAssetAllocation ==
    \E risk_tolerance \in RiskTolerances, investment_horizon \in Horizons,
       current_age \in Ages :
        Calc([op |-> "suggest_asset_allocation",
              risk_tolerance |-> risk_tolerance,
              investment_horizon |-> investment_horizon,
              current_age |-> current_age,
              out |-> suggest_asset_allocation(
                          risk_tolerance, investment_horizon, current_age)])

AnalysisRequests ==
    [token : SomeTokens, symbols : {1, 2},
     weights : {<<1000>>, <<500, 500>>, <<500, 400>>}]

MaxPeriods == 6

\* POST /analytics/portfolio-analysis
CalcAnalyzePortfolio ==
    \E req \in AnalysisRequests, service_end \in ServiceEnds,
       n_periods \in 0..MaxPeriods :
        Calc([op |-> "analyze_portfolio", req |-> req,
              service_end |-> service_end, n_periods |-> n_periods,
              out |-> analyze_portfolio(req, service_end, n_periods)])

MaxListed == 2

Strategies ==
    [keys : {{"symbols", "weights"}}, backtest : {"result"},
     sharpe_ratio : {1, 2}]
    \cup [keys : {{"symbols", "weights"}}, backtest : {"ValueError"},
          sharpe_ratio : {1}]
    \cup [keys : {{"symbols"}, {"weights"}}, backtest : {"result"},
          sharpe_ratio : {1}]

StrategyLists ==
    SeqsUpTo(Strategies, MaxListed)
    \cup {Repeat(st, MAX_STRATEGIES + 1) : st \in Strategies}

\* GET /backtesting/strategy-comparison
CalcCompareStrategies ==
    \E token \in SomeTokens, strategies \in StrategyLists :
        Calc([op |-> "compare_strategies", token |-> token,
              strategies |-> strategies,
              out |-> compare_strategies(token, strategies)])

IndexNames == {indices[i].name : i \in DOMAIN indices}

\* GET /data/indices
CalcMarketIndices ==
    \E lookup \in [IndexNames -> LookupEnds] :
        Calc([op |-> "get_market_indices", lookup |-> lookup,
              out |-> indices_endpoint(lookup)])

PairDays == 6
CostParams == {1, 5, 7}

\* two backtest-custom calls on the same market data
CalcCustomPair ==
    \E rebalance_frequency \in Frequencies,
       target_weights \in {<<1000>>, <<500, 500>>, <<1500, 0 - 500>>},
       today \in SeqsUpTo({0 - 2, 0, 2}, 2), first \in CostParams,
       second \in CostParams :
        /\ Len(today) = Len(target_weights)
        /\ first # second
        /\ LET returns_by_day == [d \in 1..PairDays |->
                                     IF d % 2 = 1 THEN today
                                     ELSE [j \in DOMAIN today |-> 0]]
           IN  Calc([op |-> "backtest_custom_pair",
                     rebalance_frequency |-> rebalance_frequency,
                     target_weights |-> target_weights,
                     returns_by_day |-> returns_by_day,
                     transaction_cost |-> <<first, second>>,
                     out |-> <<custom_portfolio_returns(
                                   rebalance_frequency, target_weights,
                                   returns_by_day, first),
                               custom_portfolio_returns(
                                   rebalance_frequency, target_weights,
                                   returns_by_day, second)>>])

\* the days the series is generated on: two weeks, a year after day 0
GenerationDays == 364..377

\* the dates _generate_synthetic_data gives on a day, for a period
CalcSyntheticDates ==
    \E end_date \in GenerationDays, period \in {"1d", "5d", "1mo", "1y"} :
        Calc([op |-> "synthetic_dates", end_date |-> end_date,
              period |-> period,
              out |-> synthetic_dates(end_date, period)])

AnalysisToday == 2519
\* histories of 1, 120, 253 and 2520 days that end today
AnalysisSeries ==
    {[first |-> AnalysisToday - len + 1, len |-> len] :
        len \in {1, 120, 253, 2520}}
AnalysisFetches ==
    UNION {[held -> AnalysisSeries] : held \in SUBSET {"A", "B"}}

\* analyze_portfolio_performance for two symbols: the whole history, or its
\* last year, is asked for
CalcPerformanceSeries ==
    \E fetched \in AnalysisFetches, benchmark_raises \in BOOLEAN,
       benchmark_fetched \in AnalysisSeries,
       start_date \in {0, AnalysisToday - 365} :
        Calc([op |-> "performance_series", start_date |-> start_date,
              end_date |-> AnalysisToday,
              out |-> performance_series({"A", "B"}, fetched,
                          benchmark_raises, benchmark_fetched, start_date,
                          AnalysisToday, AnalysisToday)])

\* short stand-ins for the listed symbols, for the lists the configured
\* POPULAR_STOCKS and POPULAR_ETFS and the embedded list add up to (a symbol
\* can be listed twice), and for the queries
ListedSymbols ==
    {<<"A">> \o NS, <<"A", "B">> \o NS, <<"B">> \o NS, <<"B", "A">> \o NS}
SymbolLists == SeqsUpTo(ListedSymbols, 3) \ {<<>>}
Queries ==
    {<<"A">>, <<"a">>, <<"a", "b">>, <<"A">> \o NS, <<"a", ".", "n", "s">>,
     <<"B", "A", "B">>, <<"N">>, <<"B", ".">>}
Limits == {0, 1, 2}

CalcSearchSymbols ==
    \E all_symbols \in SymbolLists, query \in Queries, limit \in Limits :
        Calc([op |-> "search_symbols", all_symbols |-> all_symbols,
              query |-> query, limit |-> limit,
              out |-> search_symbols(all_symbols, query, limit)])

\* the service functions that need no user
NextCalc ==
    \/ CalcReturn
    \/ CalcDrawdownPeriods
    \/ CalcAssetAllocation
    \/ CalcMarketIndices
    \/ CalcCustomPair
    \/ CalcSyntheticDates
    \/ CalcPerformanceSeries
    \/ CalcSearchSymbols

SpecCalc == Init /\ [][NextCalc]_vars

\* requests that change the database are served between calls
CalcRegister == calc = NoCalc /\ Register

CalcDeliver == calc = NoCalc /\ Deliver

\* the endpoints that ask for the current user, and the service they call
NextEndpoint ==
    \/ CalcRegister
    \/ CalcDeliver
    \/ CalcReturn
    \/ CalcBacktestEndpoint
    \/ CalcBacktestService
    \/ CalcAnalyzePortfolio
    \/ CalcCompareStrategies

SpecEndpoint == Init /\ [][NextEndpoint]_vars

----------------------------------------------------------------------------
(* The backtest simulation, day by day *)

TargetWeights == {<<1000>>, <<500, 500>>, <<1500, 0 - 500>>}
ReturnValues == {0 - 2, 0, 2}

SimStart ==
    \E rebalance_frequency \in Frequencies, target_weights \in TargetWeights :
        sim_start(rebalance_frequency, target_weights)

SimDay ==
    \E daily_returns \in SeqsUpTo(ReturnValues, 2) : sim_day(daily_returns)

SimReturn == sim_return

NextSim ==
    \/ SimStart
    \/ SimDay
    \/ SimReturn

SpecSim == Init /\ [][NextSim]_vars

----------------------------------------------------------------------------
(* Updates of one of several portfolios *)

MaxOwned == 2

ManyUpdates ==
    [name : {NoText, "n2"}, description : {NoText, "d1"},
     has_holdings : {TRUE},
     holdings : {<<>>, <<Row("A", 500), Row("A", 504)>>, <<Row("B", 500)>>}]
    \cup [name : {NoText, "n2"}, description : {NoText, "d1"},
          has_holdings : {FALSE}, holdings : {<<>>}]

UpdCreatePortfolio ==
    /\ UNCHANGED svcvars
    /\ Len(portfolios) < MaxOwned
    /\ \E t \in ValidTokens, p \in FewCreates : create_portfolio(t, p)

UpdUpdatePortfolio ==
    /\ UNCHANGED svcvars
    /\ \E t \in SomeTokens, id \in 1..(MaxOwned + 1), u \in ManyUpdates :
           update_portfolio(t, id, u)

NextUpdate ==
    \/ Register
    \/ UpdCreatePortfolio
    \/ UpdUpdatePortfolio
    \/ Deliver

SpecUpdate == Init /\ [][NextUpdate]_vars

----------------------------------------------------------------------------
(* backtest-custom calls served at the same time by several workers *)

ParRequests ==
    [token : ValidTokens, symbols : {1}, weights : {<<1000>>},
     days : {10, 40}, transaction_cost : {1, 5, 7}]

BtCall ==
    \E w \in Workers, r \in ParRequests : backtest_custom_strategy(w, r)

NextBacktestPar ==
    \/ Register
    \/ Deliver
    \/ BtCall
    \/ BtReadOriginal
    \/ BtSetCost
    \/ BtRun
    \/ BtRestore
    \/ BtReturn

SpecBacktestPar == Init /\ [][NextBacktestPar]_vars

----------------------------------------------------------------------------
(* Walk-forward analysis: the worker thread keeps running its loop *)

WalkDates == {20, 90, 130}
WalkWindows == {0 - 7, 0, 10, 30, 150}

WalkStart ==
    \E token \in SomeTokens, symbols \in {1, 2}, weights \in {1, 2},
       start_dt \in WalkDates, end_dt \in WalkDates,
       optimization_window \in WalkWindows :
        walk_forward_analysis(token, symbols, weights, start_dt, end_dt,
                              optimization_window)

WalkIterate == walk_iterate
WalkLeave == walk_leave

WalkBacktests ==
    \E results \in 0..MaxWindows, statistics_raise \in BOOLEAN :
        walk_backtests(results, statistics_raise)

WalkReturn == walk_return

NextWalk ==
    \/ Register
    \/ Deliver
    \/ WalkStart
    \/ WalkIterate
    \/ WalkLeave
    \/ WalkBacktests
    \/ WalkReturn

SpecWalk ==
    /\ Init
    /\ [][NextWalk]_vars
    /\ WF_vars(WalkIterate)
    /\ WF_vars(WalkLeave)

----------------------------------------------------------------------------
(* What the claims speak of *)

ByIdOps == {"get_portfolio", "update_portfolio", "delete_portfolio",
            "get_portfolio_performance", "optimize_existing_portfolio",
            "rebalance_portfolio", "get_portfolio_suggestions"}

ProtectedOps == ByIdOps \cup {"read_users_me", "update_user_me", "delete_user_me",
                              "get_user_portfolios", "create_portfolio"}

TokenVerifies(t) == t.present /\ t.signed /\ ~t.expired

NamesUser(t) == \E u \in 1..Len(users) : users[u].username = t.sub

NamesActiveUser(t) ==
    \E u \in 1..Len(users) : users[u].username = t.sub /\ users[u].is_active

Authenticated(t) == TokenVerifies(t) /\ NamesActiveUser(t)

\* the portfolio exists, is active and belongs to the user the token names
OwnsActive(t, id) ==
    /\ id \in 1..Len(portfolios)
    /\ portfolios[id].is_active
    /\ users[portfolios[id].user_id].username = t.sub

SymbolsOf(rows) == {rows[i].symbol : i \in 1..Len(rows)}

----------------------------------------------------------------------------
(* C1: after any sequence of create, update-with-holdings and rebalance     *)
(* requests, every active portfolio that has holdings has weights summing  *)
(* to 1.0 within 0.01.                                                     *)
C1_WeightsSumToOne ==
    \A p \in 1..Len(portfolios) :
        (portfolios[p].is_active /\ holdings[p] # <<>>)
            => Abs(SumWeights(holdings[p]) - ONE) <= TOLERANCE

(* C2: a portfolio-by-id operation called by an authenticated user on a     *)
(* portfolio that does not exist, belongs to another user or is            *)
(* soft-deleted is answered 404 and changes no user, portfolio or holding  *)
(* row.                                                                    *)
C2_MissingPortfolioIs404 ==
    [][(/\ resp'.call.op \in ByIdOps
        /\ Authenticated(resp'.call.token)
        /\ ~OwnsActive(resp'.call.token, resp'.call.portfolio_id))
          => (resp'.status = 404 /\ UNCHANGED dbvars)]_vars

C2_Witness ==
    /\ resp.call.op = "rebalance_portfolio"
    /\ resp.status = 404
    /\ resp.call.portfolio_id \in 1..Len(portfolios)
    /\ portfolios[resp.call.portfolio_id].is_active
    /\ users[portfolios[resp.call.portfolio_id].user_id].username
           # resp.call.token.sub

(* C3: the body of a protected endpoint runs only for a token that         *)
(* verifies and names an existing, active user; a missing or invalid token *)
(* or an unknown user is answered 401 and a valid token of a deactivated   *)
(* user 400, by the auth layer and without a change to the database.       *)
C3_ProtectedBodyNeedsActiveUser ==
    [][resp'.call.op \in ProtectedOps =>
        LET t == resp'.call.token
        IN  /\ (~TokenVerifies(t) \/ ~NamesUser(t))
                 => (resp'.status = 401 /\ resp'.stage = "auth"
                     /\ UNCHANGED dbvars)
            /\ (TokenVerifies(t) /\ NamesUser(t) /\ ~NamesActiveUser(t))
                 => (resp'.status = 400 /\ resp'.stage = "auth"
                     /\ UNCHANGED dbvars)
            /\ resp'.stage = "body" => Authenticated(t)]_vars

C3_Witness ==
    /\ resp.call.op = "create_portfolio"
    /\ resp.status = 400
    /\ resp.stage = "auth"
    /\ TokenVerifies(resp.call.token)
    /\ NamesUser(resp.call.token)
    /\ ~NamesActiveUser(resp.call.token)

(* C4: no operation removes a user row or a portfolio row or changes whose *)
(* it is, and no operation sets a cleared active flag back to true.        *)
C4_DeactivationIsPermanent ==
    [][/\ Len(users') >= Len(users)
       /\ Len(portfolios') >= Len(portfolios)
       /\ \A u \in 1..Len(users) :
            /\ users'[u].username = users[u].username
            /\ users'[u].email = users[u].email
            /\ ~users[u].is_active => ~users'[u].is_active
       /\ \A p \in 1..Len(portfolios) :
            /\ portfolios'[p].user_id = portfolios[p].user_id
            /\ ~portfolios[p].is_active => ~portfolios'[p].is_active]_vars

\* an account was deleted and a soft-deleted portfolio of it is still stored
C4_Witness ==
    /\ resp.call.op = "delete_user_me"
    /\ resp.status = 200
    /\ \E p \in 1..Len(portfolios) :
         /\ users[portfolios[p].user_id].username = resp.call.token.sub
         /\ ~users[portfolios[p].user_id].is_active
         /\ ~portfolios[p].is_active

(* C5: after a successful rebalance whose map gives weight 0 to a symbol   *)
(* the portfolio held, the portfolio has no holding of that symbol.        *)
C5_ZeroWeightHoldingRemoved ==
    (resp.call.op = "rebalance_portfolio" /\ resp.status = 200) =>
        \A i \in 1..Len(resp.call.new_weights) :
            (/\ resp.call.new_weights[i].weight = 0
             /\ resp.call.new_weights[i].symbol \in SymbolsOf(resp.before))
                => resp.call.new_weights[i].symbol
                      \notin SymbolsOf(holdings[resp.call.portfolio_id])

C5_Witness ==
    /\ resp.call.op = "rebalance_portfolio"
    /\ resp.status = 200
    /\ \E i \in 1..Len(resp.call.new_weights) :
         /\ resp.call.new_weights[i].weight = 0
         /\ resp.call.new_weights[i].symbol \in SymbolsOf(resp.before)
         /\ Cardinality({j \in 1..Len(resp.before) :
               resp.before[j].symbol = resp.call.new_weights[i].symbol}) = 2

C7_UniqueEmailAndUsername ==
    [][/\ \A i, j \in 1..Len(users') :
            i # j => /\ users'[i].email # users'[j].email
                     /\ users'[i].username # users'[j].username
       /\ (/\ resp'.call.op = "register_user"
           /\ \E i \in 1..Len(users) :
                \/ users[i].email = resp'.call.user.email
                \/ users[i].username = resp'.call.user.username)
            => (resp'.status = 400 /\ UNCHANGED dbvars)]_vars

\* a registration reusing only the username of a deactivated user was refused
C7_Witness ==
    /\ resp.call.op = "register_user"
    /\ resp.status = 400
    /\ \E i \in 1..Len(users) :
         /\ users[i].username = resp.call.user.username
         /\ ~users[i].is_active
    /\ \A i \in 1..Len(users) : users[i].email # resp.call.user.email

(* C8: when a backtest-custom call that overlaps no other call finishes,    *)
(* with a result or with an error, transaction_cost has the value it had   *)
(* when the call arrived.                                                  *)
C8_CostRestoredWhenCallFinishes ==
    \A w \in Workers :
        bt[w].pc = "done" => transaction_cost = bt[w].entry_cost

(* C9: a quote lookup goes to the cached payload exactly when the          *)
(* normalized symbol has an entry younger than 15 minutes, and then        *)
(* returns that payload having made no upstream call; upstream calls are   *)
(* made only by a lookup that found no such entry; and the cache changes   *)
(* only when a lookup whose two upstream calls succeeded stores its        *)
(* payload.                                                                *)
C9_CacheHitSkipsUpstream ==
    [][/\ \A t \in Threads :
            /\ (qt[t].pc = "idle" /\ qt'[t].pc # "idle") =>
                 LET s == qt'[t].symbol
                     young == /\ cache[s].present
                              /\ now - cache[s].timestamp < CACHE_DURATION_MINUTES
                 IN  /\ qt'[t].calls = 0
                     /\ young => qt'[t].pc = "hit"
                     /\ ~young => qt'[t].pc = "fetch"
            /\ (qt[t].pc = "hit" /\ qt'[t] # qt[t]) =>
                 /\ qt'[t].pc = "done"
                 /\ qt'[t].status = 200
                 /\ qt'[t].calls = 0
                 /\ qt'[t].result = cache[qt[t].symbol].data
                 /\ cache' = cache
            /\ qt'[t].calls > qt[t].calls => qt[t].pc = "fetch"
       /\ \A s \in CacheKeys :
            cache'[s] # cache[s] =>
                \E t \in Threads :
                    /\ qt[t].pc = "store"
                    /\ qt[t].symbol = s
                    /\ qt[t].calls = 2
                    /\ cache'[s].present
                    /\ cache'[s].data = qt[t].data]_vars

\* a lookup for X was answered, with no upstream call, from the entry
\* another lookup stored 10 minutes earlier under X.NS
C9_Witness ==
    \E t \in Threads :
        /\ qt[t].pc = "done"
        /\ qt[t].status = 200
        /\ qt[t].calls = 0
        /\ qt[t].arg # qt[t].symbol
        /\ qt[t].result = cache[qt[t].symbol].data
        /\ qt[t].result.by # t
        /\ now - cache[qt[t].symbol].timestamp = 10

(* C10: under any interleaving of quote lookups, a lookup that ends with   *)
(* status 200 returns a payload for its own normalized symbol that is      *)
(* either the whole payload it fetched itself or the whole payload of the  *)
(* cache entry, and whenever an entry changes it becomes the payload of    *)
(* one lookup paired with the time of that very write.                     *)
C10_RaceOnlyRepeatsFetches ==
    [][/\ \A t \in Threads :
            (qt[t].pc # "done" /\ qt'[t].pc = "done" /\ qt'[t].status = 200) =>
                /\ qt'[t].result.symbol = NormalizeSymbol(qt[t].arg)
                /\ qt'[t].result.by \in Threads
                /\ \/ qt[t].pc = "store" /\ qt'[t].result = qt[t].data
                   \/ /\ qt[t].pc = "hit"
                      /\ cache[qt[t].symbol].present
                      /\ qt'[t].result = cache[qt[t].symbol].data
       /\ \A s \in CacheKeys :
            /\ cache'[s].present => cache'[s].data.symbol = s
            /\ cache[s].present => cache'[s].present
            /\ cache'[s] # cache[s] =>
                 \E t \in Threads :
                    cache'[s] = [present |-> TRUE, data |-> qt[t].data,
                                 timestamp |-> now]]_vars

\* two lookups for one symbol overlapped and both fetched: the first has
\* stored its payload and returned it, the second is about to store its own
C10_Witness ==
    \E t, u \in Threads :
        /\ t # u
        /\ qt[t].symbol = qt[u].symbol
        /\ qt[t].pc = "done" /\ qt[t].status = 200 /\ qt[t].result.by = t
        /\ qt[u].pc = "store"
        /\ cache[qt[t].symbol].data = qt[t].result
        /\ qt[u].data.last_updated <= cache[qt[t].symbol].timestamp

(* C11: a quote lookup whose upstream 2-day price window is empty ends     *)
(* with status 404, from the service method and from the endpoint.         *)
C11_EmptyHistoryIsNotFound ==
    \A t \in Threads :
        (qt[t].pc = "done" /\ qt[t].upstream = "empty") =>
            /\ qt[t].status = 404
            /\ stock_endpoint_status(ServiceOutcome(t)) = 404

(* C12: whatever the upstream does at the probe, the full-period call and  *)
(* the 1-month call, a historical lookup never raises to its caller and    *)
(* ends with a series whose prices and dates have the same length.         *)
C12_HistoricalLookupNeverRaises ==
    \A t \in Threads :
        /\ ht[t].pc # "raised"
        /\ ht[t].pc = "done" =>
             /\ ht[t].result.source \in {"upstream", "synthetic"}
             /\ ht[t].result.n_dates = ht[t].result.n_prices

\* the probe gave rows, the full period and the 1-month window were empty,
\* and the lookup ended with a synthetic series
C12_Witness ==
    \E t \in Threads :
        /\ ht[t].pc = "done"
        /\ ht[t].requests = <<"5d", "1y", "1mo">>
        /\ ht[t].hist = "empty"
        /\ ht[t].result.source = "synthetic"
        /\ ht[t].result.n_prices = 252

(* C13: two historical lookups for the same symbol and period that both    *)
(* end with synthetic data return the same series of random values.        *)
C13_SyntheticSeriesRepeat ==
    \A t, u \in Threads :
        (/\ ht[t].pc = "done" /\ ht[u].pc = "done"
         /\ ht[t].result.source = "synthetic"
         /\ ht[u].result.source = "synthetic"
         /\ ht[t].symbol = ht[u].symbol
         /\ ht[t].period = ht[u].period)
            => /\ ht[t].result.seed = ht[u].result.seed
               /\ ht[t].result.start = ht[u].result.start

(* C19: within one historical lookup no period is requested from the       *)
(* upstream twice.                                                         *)
C19_NoPeriodRequestedTwice ==
    \A t \in Threads :
        \A i, j \in 1..Len(ht[t].requests) :
            i # j => ht[t].requests[i] # ht[t].requests[j]

(* C14: a backtest whose symbol count differs from its weight count fails  *)
(* as invalid input with no fetch for a symbol or for the benchmark made;  *)
(* a backtest whose data were fetched and have fewer than 30 common dates  *)
(* fails as invalid input with no simulation step run.                     *)
C14_BacktestFailsBeforeWork ==
    calc.op \in {"backtest_endpoint", "backtest_portfolio"} =>
        LET req == calc.req
            out == calc.out
            valid == /\ req.symbols = Len(req.weights)
                     /\ Abs(SumSeq(req.weights) - ONE) <= TOLERANCE
                     /\ req.symbols <= MAX_BACKTEST_SYMBOLS
        IN  /\ (out.stage = "body" /\ req.symbols # Len(req.weights)) =>
                 /\ out.status = 400
                 /\ out.events = <<>>
            /\ (/\ out.stage = "body" /\ valid /\ calc.fetch_fails = 0
                /\ req.days < MIN_COMMON_DATES) =>
                 /\ out.status = 400
                 /\ "align dates" \in Range(out.events)
                 /\ "simulate" \notin Range(out.events)

\* the endpoint answered 400 for 29 common dates after both symbols and the
\* benchmark were fetched
C14_Witness ==
    /\ calc.op = "backtest_endpoint"
    /\ calc.req.days = 29
    /\ calc.out.status = 400
    /\ calc.out.events =
           <<"fetch symbol", "fetch symbol", "fetch benchmark", "align dates">>

(* C15: the drawdown periods recorded for a series are exactly these: a    *)
(* period starts at each index whose drawdown is below -5% while no period *)
(* is open, ends at the first later index whose drawdown is -1% or above,  *)
(* and has duration end - start + 1; a period that never recovers is not   *)
(* recorded; periods are recorded in order, one record per dip.            *)
C15_DrawdownPeriodsAreTheDips ==
    calc.op = "find_drawdown_periods" =>
        LET cum == calc.cum
            out == calc.out
            n == Len(cum)
            Below(i) == 100 * (rolling_max(cum, i) - cum[i])
                            > 5 * rolling_max(cum, i)
            Back(i) == 100 * (rolling_max(cum, i) - cum[i])
                           <= rolling_max(cum, i)
            \* no period is open at s: every earlier dip has recovered
            Opens(s) == /\ Below(s)
                        /\ \A b \in 1..(s - 1) :
                               Below(b) => \E e \in (b + 1)..(s - 1) : Back(e)
            dips == {<<s, e>> \in (1..n) \X (1..n) :
                        /\ Opens(s) /\ e > s /\ Back(e)
                        /\ \A k \in (s + 1)..(e - 1) : ~Back(k)}
        IN  /\ Len(out) = Cardinality(dips)
            /\ {<<p.start_date + 1, p.end_date + 1>> : p \in Range(out)} = dips
            /\ \A p \in Range(out) :
                   p.duration_days = p.end_date - p.start_date + 1
            /\ \A j, k \in 1..Len(out) :
                   j < k => out[j].end_date < out[k].start_date

\* one dip at index 1 recovering at index 3, then a dip left open
C15_Witness ==
    /\ calc.op = "find_drawdown_periods"
    /\ calc.cum = <<100, 94, 98, 99, 94>>
    /\ Len(calc.out) = 1
    /\ calc.out[1].start_date = 1
    /\ calc.out[1].end_date = 3
    /\ calc.out[1].duration_days = 3

(* C16: the four percentages of a suggested asset allocation sum to 100   *)
(* for every risk tolerance, horizon and age, and moderate risk with a     *)
(* 60-month horizon and no age gives exactly 65 / 15 / 5 / 15.             *)
C16_AllocationSumsTo100 ==
    calc.op = "suggest_asset_allocation" =>
        /\ DOMAIN calc.out.num = AllocationKeys
        /\ calc.out.den > 0
        /\ SumOver(calc.out.num, AllocationKeys) = 100 * calc.out.den
        /\ (/\ calc.risk_tolerance = "moderate"
            /\ calc.investment_horizon = 60
            /\ calc.current_age = <<>>) =>
               /\ calc.out.num["equity_percent"] = 65 * calc.out.den
               /\ calc.out.num["gold_percent"] = 15 * calc.out.den
               /\ calc.out.num["silver_percent"] = 5 * calc.out.den
               /\ calc.out.num["cash_percent"] = 15 * calc.out.den

\* an allocation that had to be rescaled: aggressive, short horizon, age 25
\* gives 72.5 + 10 + 3 + 17 = 102.5 before the rescale
C16_Witness ==
    /\ calc.op = "suggest_asset_allocation"
    /\ calc.risk_tolerance = "aggressive"
    /\ calc.investment_horizon = 12
    /\ calc.current_age = <<25>>
    /\ calc.out.den = 205
    /\ calc.out.num["equity_percent"] = 14500

(* C17: a portfolio-analysis request by an authenticated user with        *)
(* matching symbol and weight counts and weights summing to 1 within 0.01, *)
(* for which the analytics service returned, is answered with success,     *)
(* carrying at most the first 5 drawdown periods and their total number.   *)
C17_AnalysisSucceeds ==
    (/\ calc.op = "analyze_portfolio"
     /\ calc.out.stage = "body"
     /\ calc.req.symbols = Len(calc.req.weights)
     /\ Abs(SumSeq(calc.req.weights) - ONE) <= TOLERANCE
     /\ calc.service_end = "returns") =>
        /\ calc.out.status = 200
        /\ calc.out.body.total_drawdown_periods = calc.n_periods
        /\ Len(calc.out.body.max_drawdown_periods) = Min2(5, calc.n_periods)

(* C18: a strategy-comparison request by an authenticated user that       *)
(* contains a strategy lacking 'symbols' or 'weights' is answered with     *)
(* status 400, not with a server error.                                    *)
C18_MalformedStrategyIs400 ==
    (/\ calc.op = "compare_strategies"
     /\ calc.out.stage = "body"
     /\ \E i \in DOMAIN calc.strategies :
            ~({"symbols", "weights"} \subseteq calc.strategies[i].keys)) =>
        calc.out.status = 400

(* C20: whichever of the index lookups fail, the indices endpoint answers  *)
(* 200 with one entry for each of the five index names: the quote of the   *)
(* index's symbol where the lookup returned, the error marker where it     *)
(* failed.                                                                 *)
C20_IndexFailuresStayLocal ==
    calc.op = "get_market_indices" =>
        /\ calc.out.status = 200
        /\ DOMAIN calc.out.body.indices =
               {"NIFTY_50", "SENSEX", "BANK_NIFTY", "FINNIFTY", "NIFTY_PHARMA"}
        /\ \A i \in DOMAIN indices :
               LET entry == calc.out.body.indices[indices[i].name]
               IN  IF calc.lookup[indices[i].name] = "returns"
                   THEN entry = [symbol |-> indices[i].symbol]
                   ELSE entry = [error |-> "Data not available"]

\* the first lookup fails, the third raises something else, the rest return
C20_Witness ==
    /\ calc.op = "get_market_indices"
    /\ calc.lookup["NIFTY_50"] = "HTTPException"
    /\ calc.lookup["BANK_NIFTY"] = "Exception"
    /\ calc.lookup["SENSEX"] = "returns"
    /\ calc.out.status = 200
    /\ calc.out.body.indices["NIFTY_50"] = ErrorMarker
    /\ calc.out.body.indices["SENSEX"] = [symbol |-> "^BSESN"]

(* C21 as stated: the cost is deducted from the day's return exactly on    *)
(* the days i > 0 with i mod interval = 0 (interval 21 and the monthly     *)
(* cost for an unrecognized frequency) and the weights are then the target *)
(* weights; on every other day nothing is deducted and the weights are the *)
(* drifted weights renormalized to sum to 1.                               *)
C21_DriftAlwaysRenormalized ==
    (calc.op = "simulation" /\ calc.day # NoDay) =>
        LET day == calc.day
            interval ==
                CASE calc.rebalance_frequency = "daily" -> 1
                  [] calc.rebalance_frequency = "weekly" -> 5
                  [] calc.rebalance_frequency = "quarterly" -> 63
                  [] OTHER -> 21
            cost ==
                CASE calc.rebalance_frequency = "daily" -> 20
                  [] calc.rebalance_frequency = "weekly" -> 10
                  [] calc.rebalance_frequency = "quarterly" -> 3
                  [] OTHER -> 5
            before == day.weights_before
            after == day.current_weights
            drifted == [j \in DOMAIN before.num |->
                           before.num[j] * (2 + day.daily_returns[j])]
            total == SumSeq(drifted)
            gross == day.gross
            net == day.portfolio_return
        IN  /\ gross[2] > 0 /\ net[2] > 0 /\ after.den > 0
            /\ gross[1] * before.den * 2 = gross[2] *
                   SumSeq([j \in DOMAIN before.num |->
                              before.num[j] * day.daily_returns[j]])
            /\ IF day.i > 0 /\ day.i % interval = 0
               THEN \* net = gross - cost / 10000, for net[2] = k * gross[2]
                    /\ \E k \in {1, 10, 100, 1000, 10000} :
                           /\ net[2] = k * gross[2]
                           /\ net[1] * (10000 \div k)
                                  = gross[1] * 10000 - cost * gross[2]
                    /\ \A j \in DOMAIN after.num :
                           after.num[j] * 1000
                               = calc.target_weights[j] * after.den
               ELSE /\ net[1] * gross[2] = gross[1] * net[2]
                    /\ SumSeq(after.num) = after.den
                    /\ \A j \in DOMAIN after.num :
                           after.num[j] * total = drifted[j] * after.den

(* C21, amended: as stated, except that on a day without rebalance the     *)
(* drifted weights are renormalized only when their total is positive and  *)
(* are otherwise kept as drifted.                                          *)
C21_RebalanceDaysAndDrift ==
    (calc.op = "simulation" /\ calc.day # NoDay) =>
        LET day == calc.day
            interval ==
                CASE calc.rebalance_frequency = "daily" -> 1
                  [] calc.rebalance_frequency = "weekly" -> 5
                  [] calc.rebalance_frequency = "quarterly" -> 63
                  [] OTHER -> 21
            cost ==
                CASE calc.rebalance_frequency = "daily" -> 20
                  [] calc.rebalance_frequency = "weekly" -> 10
                  [] calc.rebalance_frequency = "quarterly" -> 3
                  [] OTHER -> 5
            before == day.weights_before
            after == day.current_weights
            drifted == [j \in DOMAIN before.num |->
                           before.num[j] * (2 + day.daily_returns[j])]
            total == SumSeq(drifted)
            gross == day.gross
            net == day.portfolio_return
        IN  /\ gross[2] > 0 /\ net[2] > 0 /\ after.den > 0
            /\ gross[1] * before.den * 2 = gross[2] *
                   SumSeq([j \in DOMAIN before.num |->
                              before.num[j] * day.daily_returns[j]])
            /\ IF day.i > 0 /\ day.i % interval = 0
               THEN \* net = gross - cost / 10000, for net[2] = k * gross[2]
                    /\ \E k \in {1, 10, 100, 1000, 10000} :
                           /\ net[2] = k * gross[2]
                           /\ net[1] * (10000 \div k)
                                  = gross[1] * 10000 - cost * gross[2]
                    /\ \A j \in DOMAIN after.num :
                           after.num[j] * 1000
                               = calc.target_weights[j] * after.den
               ELSE /\ net[1] * gross[2] = gross[1] * net[2]
                    /\ IF total > 0
                       THEN /\ SumSeq(after.num) = after.den
                            /\ \A j \in DOMAIN after.num :
                                   after.num[j] * total = drifted[j] * after.den
                       ELSE \A j \in DOMAIN after.num :
                                after.num[j] * before.den * 2
                                    = drifted[j] * after.den

\* day 63 of a quarterly simulation: the first quarterly rebalance
C21_Witness ==
    /\ calc.op = "simulation"
    /\ calc.rebalance_frequency = "quarterly"
    /\ calc.day.i = 63
    /\ calc.day.weights_before # calc.current_weights
    /\ calc.current_weights = target_copy(calc.target_weights)

(* C22: after a successful rebalance the holdings of the portfolio are     *)
(* exactly the symbols to which the submitted map gives a nonzero weight,  *)
(* each once and with the weight of the map.                               *)
C22_HoldingsAreNonzeroMapEntries ==
    (resp.call.op = "rebalance_portfolio" /\ resp.status = 200) =>
        LET rows == holdings[resp.call.portfolio_id]
            new_weights == resp.call.new_weights
        IN  /\ SymbolsOf(rows) =
                   {new_weights[i].symbol : i \in
                       {k \in 1..Len(new_weights) : new_weights[k].weight # 0}}
            /\ \A j, k \in 1..Len(rows) :
                   rows[j].symbol = rows[k].symbol => j = k
            /\ \A j \in 1..Len(rows) :
                   /\ rows[j].weight # 0
                   /\ rows[j].symbol \in MapKeys(new_weights)
                   /\ rows[j].weight = MapGet(new_weights, rows[j].symbol)

(* C23: a successful update that supplies a holdings list leaves the       *)
(* portfolio with exactly the rows of the list, one that omits holdings    *)
(* leaves its rows as they were; name and description change only when     *)
(* supplied, to the supplied value; the rows of every other portfolio, the *)
(* other portfolios and the users stay as they were.                       *)
C23_UpdateReplacesOnlyItsHoldings ==
    [][(/\ resp.call.op = "none"
        /\ resp'.call.op = "update_portfolio"
        /\ resp'.status = 200) =>
        LET pid == resp'.call.portfolio_id
            u == resp'.call.portfolio_update
        IN  /\ Len(holdings') = Len(holdings)
            /\ Len(portfolios') = Len(portfolios)
            /\ holdings'[pid] = IF u.has_holdings THEN u.holdings
                                ELSE holdings[pid]
            /\ \A q \in 1..Len(holdings) :
                   q # pid => /\ holdings'[q] = holdings[q]
                              /\ portfolios'[q] = portfolios[q]
            /\ portfolios'[pid].name =
                   IF u.name # NoText THEN u.name ELSE portfolios[pid].name
            /\ portfolios'[pid].description =
                   IF u.description # NoText THEN u.description
                   ELSE portfolios[pid].description
            /\ portfolios'[pid].user_id = portfolios[pid].user_id
            /\ portfolios'[pid].is_active = portfolios[pid].is_active
            /\ users' = users]_vars

\* the second of two portfolios got a new list, the first kept its rows
C23_Witness ==
    /\ resp.call.op = "update_portfolio"
    /\ resp.status = 200
    /\ resp.call.portfolio_id = 2
    /\ resp.call.portfolio_update.has_holdings
    /\ resp.before # resp.call.portfolio_update.holdings
    /\ holdings[2] = resp.call.portfolio_update.holdings
    /\ holdings[1] # <<>>
    /\ holdings[1] # holdings[2]

(* C24, for calls that all return a result: when every worker has          *)
(* finished a backtest-custom call with status 200, and the field had its  *)
(* configured value 0.001 when the first of them arrived, the field has    *)
(* that value again.                                                       *)
C24_CostRestoredAfterOverlap ==
    (/\ \A w \in Workers : bt[w].pc = "done" /\ bt[w].status = 200
     /\ \E w \in Workers : bt[w].entry_cost = DEFAULT_TRANSACTION_COST) =>
        transaction_cost = DEFAULT_TRANSACTION_COST

(* C25: two backtest-custom calls that differ only in their               *)
(* transaction_cost parameter and see the same market data return the same *)
(* series of portfolio returns, one return for each day.                   *)
C25_CostParameterHasNoEffect ==
    calc.op = "backtest_custom_pair" =>
        /\ calc.transaction_cost[1] # calc.transaction_cost[2]
        /\ Len(calc.out[1]) = Len(calc.returns_by_day)
        /\ calc.out[1] = calc.out[2]

\* weekly rebalancing, parameters 0.001 and 0.005: day 5 carries the weekly
\* cost in both series
C25_Witness ==
    /\ calc.op = "backtest_custom_pair"
    /\ calc.rebalance_frequency = "weekly"
    /\ calc.transaction_cost = <<1, 5>>
    /\ calc.out[1][6][2] = calc.out[1][5][2] * 10000
    /\ calc.out[2][6] = calc.out[1][6]

(* C26: for every period and every day of generation, the dates of a      *)
(* synthetic series are strictly ascending, none is a Saturday or a        *)
(* Sunday, and none is after the day of generation.                        *)
C26_SyntheticDatesAscendWithinPast ==
    calc.op = "synthetic_dates" =>
        /\ \A j, k \in DOMAIN calc.out : j < k => calc.out[j] < calc.out[k]
        /\ \A k \in DOMAIN calc.out :
               /\ calc.out[k] % 7 \notin {5, 6}
               /\ calc.out[k] <= calc.end_date

(* C27: for every start date, end date and optimization_window, zero and   *)
(* negative ones included, the loop that generates the walk-forward        *)
(* windows comes to its end with the list of windows.                      *)
C27_WindowLoopTerminates ==
    (calc.op = "walk_forward" /\ calc.pc = "loop")
        ~> (calc.op = "walk_forward" /\ calc.pc = "generated")

\* C28: every date in the date series portfolio-performance analysis
\* returns, and the date of every return it used for the metrics, lies in
\* the requested range from start_date to end_date.
C28_SeriesWithinRequestedRange ==
    calc.op = "performance_series" =>
        /\ \A k \in DOMAIN calc.out.dates :
               calc.start_date <= calc.out.dates[k]
               /\ calc.out.dates[k] <= calc.end_date
        /\ \A d \in calc.out.return_dates :
               calc.start_date <= d /\ d <= calc.end_date

\* C29: for every query and every limit of at least 1, the lightweight
\* symbol search returns at most limit symbols, and every exact match in
\* its result stands before every symbol that only holds the query.
C29_SearchWithinLimitExactFirst ==
    (calc.op = "search_symbols" /\ calc.limit >= 1) =>
        /\ Len(calc.out) <= calc.limit
        /\ \A i, j \in DOMAIN calc.out :
               (i < j /\ is_exact_match(calc.out[j], calc.query))
                   => is_exact_match(calc.out[i], calc.query)

(* C30: a login issues a token only for an existing username whose         *)
(* password verifies and whose account is active; a missing user or a      *)
(* wrong password is answered 401, also for a deactivated account, a       *)
(* correct password on a deactivated account is answered 400, and a failed *)
(* login produces no token and changes no user row.                        *)
C30_LoginIssuesTokenOnlyWhenVerifiedAndActive ==
    [][(resp = NoResp /\ resp'.call.op = "login") =>
        LET username == resp'.call.username
            password == resp'.call.password
            u == UserByUsername(username)
            verifies ==
                /\ u # 0
                /\ users[u].hashed_password = get_password_hash(password)
        IN  /\ users' = users
            /\ ~verifies => (resp'.status = 401 /\ ~resp'.body.present)
            /\ (verifies /\ ~users[u].is_active)
                   => (resp'.status = 400 /\ ~resp'.body.present)
            /\ (verifies /\ users[u].is_active)
                   => /\ resp'.status = 200
                      /\ resp'.body = Jwt(username, TRUE, FALSE)]_vars

\* a wrong password on a deactivated account was answered 401
C30_Witness ==
    /\ resp.call.op = "login"
    /\ resp.status = 401
    /\ ~resp.body.present
    /\ \E u \in 1..Len(users) :
         /\ users[u].username = resp.call.username
         /\ ~users[u].is_active
         /\ users[u].hashed_password # get_password_hash(resp.call.password)

=============================================================================
